---- MODULE Spec2Model ----
(***************************************************************************)
(* RustiqueDB: the in-memory storage engine (src/src/database/mod.rs).     *)
(*                                                                         *)
(* A Rust String is modelled as a sequence of characters, each character a *)
(* one-character TLA+ string, so that trim, case folding, integer parsing  *)
(* and length are computed the way the code computes them.                 *)
(***************************************************************************)
EXTENDS Integers, Sequences, FiniteSets, TLC

VARIABLES tables, last, file, history

vars == <<tables, last, file, history>>

(***************************************************************************)
(* Characters and strings                                                  *)
(***************************************************************************)
UpperChars == <<"A","B","C","D","E","F","G","H","I","J","K","L","M",
                "N","O","P","Q","R","S","T","U","V","W","X","Y","Z">>
LowerChars == <<"a","b","c","d","e","f","g","h","i","j","k","l","m",
                "n","o","p","q","r","s","t","u","v","w","x","y","z">>
DigitChars == <<"0","1","2","3","4","5","6","7","8","9">>

\* U+00A0, the no-break space parse_condition substitutes inside quotes.
NBSP == "NBSP"

\* The control characters U+0000 to U+001F in code order, and U+007F.
ControlChars ==
    <<"NUL", "SOH", "STX", "ETX", "EOT", "ENQ", "ACK", "BEL", "BS", "\t",
      "\n", "VT", "FF", "\r", "SO", "SI", "DLE", "DC1", "DC2", "DC3", "DC4",
      "NAK", "SYN", "ETB", "CAN", "EM", "SUB", "ESC", "FS", "GS", "RS", "US">>
DEL == "DEL"

ControlCodes ==
    [c \in {ControlChars[i] : i \in 1..Len(ControlChars)} |->
        (CHOOSE i \in 1..Len(ControlChars) : ControlChars[i] = c) - 1]

IsControl(c) == c \in DOMAIN ControlCodes

\* The characters with the property White_Space: U+0009 to U+000D, the
\* space, U+00A0, and, written as the atoms of their codes, U+0085,
\* U+1680, U+2000 to U+200A, U+2028, U+2029, U+202F, U+205F and U+3000.
WhitespaceChars ==
    {" ", "\t", "\n", "VT", "FF", "\r", NBSP}
    \cup {ToString(n) : n \in {133, 5760, 8232, 8233, 8239, 8287, 12288}}
    \cup {ToString(n) : n \in 8192..8202}

\* char::is_whitespace
IsWhitespace(c) == c \in WhitespaceChars

\* u8::is_ascii_whitespace: space, tab, line feed, form feed, carriage
\* return.
AsciiWhitespaceChars == {" ", "\t", "\n", "FF", "\r"}

IsAsciiWhitespace(c) == c \in AsciiWhitespaceChars

\* char::to_ascii_lowercase / the ASCII part of str::to_lowercase
UpperToLower ==
    [c \in {UpperChars[i] : i \in 1..Len(UpperChars)} |->
        LowerChars[CHOOSE i \in 1..Len(UpperChars) : UpperChars[i] = c]]

ToLowerChar(c) == IF c \in DOMAIN UpperToLower THEN UpperToLower[c] ELSE c

ToLower(s) == [i \in 1..Len(s) |-> ToLowerChar(s[i])]

\* str::eq_ignore_ascii_case
EqIgnoreAsciiCase(a, b) == ToLower(a) = ToLower(b)

RECURSIVE TrimStart(_)
TrimStart(s) ==
    IF s # <<>> /\ IsWhitespace(Head(s)) THEN TrimStart(Tail(s)) ELSE s

RECURSIVE TrimEnd(_)
TrimEnd(s) ==
    IF s # <<>> /\ IsWhitespace(s[Len(s)])
    THEN TrimEnd(SubSeq(s, 1, Len(s) - 1))
    ELSE s

\* str::trim
Trim(s) == TrimEnd(TrimStart(s))

\* str::trim_matches for a set of characters
RECURSIVE TrimMatchesStart(_, _)
TrimMatchesStart(s, cs) ==
    IF s # <<>> /\ Head(s) \in cs THEN TrimMatchesStart(Tail(s), cs) ELSE s

RECURSIVE TrimMatchesEnd(_, _)
TrimMatchesEnd(s, cs) ==
    IF s # <<>> /\ s[Len(s)] \in cs
    THEN TrimMatchesEnd(SubSeq(s, 1, Len(s) - 1), cs)
    ELSE s

TrimMatches(s, cs) == TrimMatchesEnd(TrimMatchesStart(s, cs), cs)

StartsWith(s, p) == Len(s) >= Len(p) /\ SubSeq(s, 1, Len(p)) = p

EndsWith(s, p) ==
    Len(s) >= Len(p) /\ SubSeq(s, Len(s) - Len(p) + 1, Len(s)) = p

\* The bytes a character takes in UTF-8; str::len counts bytes.
ByteLen(c) == IF c = NBSP THEN 2 ELSE 1

RECURSIVE StrLen(_)
StrLen(s) == IF s = <<>> THEN 0 ELSE ByteLen(Head(s)) + StrLen(Tail(s))

NullToken == <<"n","u","l","l">>

(***************************************************************************)
(* str::parse::<i32>: an optional sign, then one or more ASCII digits, the *)
(* value within the 32-bit signed range.                                   *)
(***************************************************************************)
I32Max == 2147483647

DigitValues ==
    [c \in {DigitChars[i] : i \in 1..Len(DigitChars)} |->
        (CHOOSE i \in 1..Len(DigitChars) : DigitChars[i] = c) - 1]

IsDigit(c) == c \in DOMAIN DigitValues

DigitValue(c) == DigitValues[c]

ParseErr == [ok |-> FALSE, val |-> 0]

\* Accumulates the magnitude as a non-positive number, as the negative
\* branch of from_str_radix does, so that -2147483648 is representable;
\* neg = FALSE needs the magnitude to be at most I32Max.
RECURSIVE ParseDigits(_, _, _)
ParseDigits(s, acc, neg) ==
    IF s = <<>> THEN
        IF neg THEN [ok |-> TRUE, val |-> acc]
        ELSE IF acc < -I32Max THEN ParseErr
        ELSE [ok |-> TRUE, val |-> -acc]
    ELSE IF ~IsDigit(Head(s)) THEN ParseErr
    ELSE
        LET d == DigitValue(Head(s)) IN
        IF acc < (-I32Max - 1 + d) \div 10 + (IF (-I32Max - 1 + d) % 10 = 0 THEN 0 ELSE 1)
        THEN ParseErr
        ELSE ParseDigits(Tail(s), acc * 10 - d, neg)

ParseI32(s) ==
    IF s = <<>> THEN ParseErr
    ELSE IF Head(s) \in {"+", "-"} THEN
        IF Len(s) = 1 THEN ParseErr
        ELSE ParseDigits(Tail(s), 0, Head(s) = "-")
    ELSE ParseDigits(s, 0, FALSE)

\* parse::<i32>().unwrap_or(0)
ParseI32Or0(s) == IF ParseI32(s).ok THEN ParseI32(s).val ELSE 0

(***************************************************************************)
(* Data model: DataType, Column, Table, Database                           *)
(***************************************************************************)
DataTypeInt(w) == [tag |-> "Int", n |-> w]
DataTypeVarchar(m) == [tag |-> "Varchar", n |-> m]

Column(name, data_type, is_primary, not_null) ==
    [name |-> name, data_type |-> data_type,
     is_primary |-> is_primary, not_null |-> not_null]

Table(name, columns, data) == [name |-> name, columns |-> columns, data |-> data]

\* Results: Result<usize, String> / Result<(), String>.  The error strings
\* of the code are grouped by the format string that produces them.
Ok(n) == [ok |-> TRUE, count |-> n, err |-> "none"]
Err(kind) == [ok |-> FALSE, count |-> 0, err |-> kind]

\* Iterator::position: the first index (1-based) satisfying the test, 0 for None.
PositionOfColumn(columns, name) ==
    IF \E i \in 1..Len(columns) : columns[i].name = name
    THEN CHOOSE i \in 1..Len(columns) :
            /\ columns[i].name = name
            /\ \A j \in 1..(i - 1) : columns[j].name # name
    ELSE 0

PositionOfPrimary(columns) ==
    IF \E i \in 1..Len(columns) : columns[i].is_primary
    THEN CHOOSE i \in 1..Len(columns) :
            /\ columns[i].is_primary
            /\ \A j \in 1..(i - 1) : ~columns[j].is_primary
    ELSE 0

\* Mutant: the first table is taken, whatever its name.
FindTable_FirstTable(tabs, table_name) == IF tabs = <<>> THEN 0 ELSE 1

\* self.tables.iter().find(|t| t.name == table_name)
FindTable(tabs, table_name) ==
    IF \E i \in 1..Len(tabs) : tabs[i].name = table_name
    THEN CHOOSE i \in 1..Len(tabs) :
            /\ tabs[i].name = table_name
            /\ \A j \in 1..(i - 1) : tabs[j].name # table_name
    ELSE 0

(***************************************************************************)
(* Database::create_table                                                  *)
(***************************************************************************)
create_table(tabs, name, columns) ==
    LET normalized_name == ToLower(Trim(name))
        exists == \E i \in 1..Len(tabs) : ToLower(tabs[i].name) = normalized_name
    IN  IF exists
        THEN [tables |-> tabs, res |-> Err("TableExists")]
        ELSE [tables |-> Append(tabs, Table(name, columns, <<>>)), res |-> Ok(0)]

(***************************************************************************)
(* Database::insert                                                        *)
(***************************************************************************)
\* The NULL test of insert (line 110, and again at line 124).
IsNullValue(value) ==
    Trim(value) = <<>> \/ EqIgnoreAsciiCase(Trim(value), NullToken)

\* Lines 91-97: place the listed values; the first unknown column aborts.
RECURSIVE PlaceListed(_, _, _, _, _)
PlaceListed(columns, col_names, row_values, i, full_row) ==
    IF i > Len(col_names) THEN [ok |-> TRUE, row |-> full_row]
    ELSE
        LET col_index == PositionOfColumn(columns, col_names[i]) IN
        IF col_index = 0 THEN [ok |-> FALSE, row |-> <<>>]
        ELSE PlaceListed(columns, col_names, row_values, i + 1,
                         [full_row EXCEPT ![col_index] = row_values[i]])

\* Mutant: the count check of line 102 left out.
FullRowValues_NoCountCheck(columns, col_list, row_values) ==
    IF col_list.some THEN
        IF Len(col_list.names) # Len(row_values)
        THEN [err |-> "ColumnCountMismatch", row |-> <<>>]
        ELSE
            LET placed == PlaceListed(columns, col_list.names, row_values, 1,
                                      [j \in 1..Len(columns) |-> <<>>])
            IN  IF placed.ok THEN [err |-> "none", row |-> placed.row]
                ELSE [err |-> "ColumnNotFound", row |-> <<>>]
    ELSE [err |-> "none", row |-> row_values]

\* Lines 82-106: the full positional row, or the error that ends the call.
\* col_list is [some |-> FALSE] or [some |-> TRUE, names |-> ...].
FullRowValues(columns, col_list, row_values) ==
    IF col_list.some THEN
        IF Len(col_list.names) # Len(row_values)
        THEN [err |-> "ColumnCountMismatch", row |-> <<>>]
        ELSE
            LET placed == PlaceListed(columns, col_list.names, row_values, 1,
                                      [j \in 1..Len(columns) |-> <<>>])
            IN  IF placed.ok THEN [err |-> "none", row |-> placed.row]
                ELSE [err |-> "ColumnNotFound", row |-> <<>>]
    ELSE
        IF Len(row_values) # Len(columns)
        THEN [err |-> "ColumnCountMismatch", row |-> <<>>]
        ELSE [err |-> "none", row |-> row_values]

Min(x, y) == IF x <= y THEN x ELSE y

\* Mutant: the check of line 116 (primary columns) left out.
NotNullViolated_NotNullOnly(columns, full_row) ==
    \E i \in 1..Min(Len(full_row), Len(columns)) :
        IsNullValue(full_row[i]) /\ columns[i].not_null

\* Lines 108-119: NOT NULL and primary columns refuse a NULL value; zip
\* pairs the values with the columns up to the shorter of the two.
NotNullViolated(columns, full_row) ==
    \E i \in 1..Min(Len(full_row), Len(columns)) :
        /\ IsNullValue(full_row[i])
        /\ (columns[i].not_null \/ columns[i].is_primary)

\* Mutant: the uniqueness check of lines 121-129 left out.
DuplicatePrimary_Skipped(columns, data, full_row) == FALSE

\* Lines 121-129: the primary value must not equal a stored primary cell.
DuplicatePrimary(columns, data, full_row) ==
    LET pk_index == PositionOfPrimary(columns) IN
    /\ pk_index # 0
    /\ ~(Trim(full_row[pk_index]) = <<>>)
    /\ ~EqIgnoreAsciiCase(Trim(full_row[pk_index]), NullToken)
    /\ \E r \in 1..Len(data) : data[r][pk_index] = full_row[pk_index]

\* Lines 131-137: the token NULL is stored as the empty string.
NormalizeCell(s) ==
    IF EqIgnoreAsciiCase(Trim(s), NullToken) THEN <<>> ELSE s

StoredRow(full_row) == [i \in 1..Len(full_row) |-> NormalizeCell(full_row[i])]

\* One iteration of the loop at line 80 for the row values[k].
RECURSIVE InsertLoop(_, _, _, _, _)
InsertLoop(table, col_list, values, k, inserted_rows) ==
    IF k > Len(values) THEN [table |-> table, res |-> Ok(inserted_rows)]
    ELSE
        LET full == FullRowValues(table.columns, col_list, values[k]) IN
        IF full.err # "none" THEN [table |-> table, res |-> Err(full.err)]
        ELSE IF NotNullViolated(table.columns, full.row)
        THEN [table |-> table, res |-> Err("MissingValue")]
        ELSE IF DuplicatePrimary(table.columns, table.data, full.row)
        THEN [table |-> table, res |-> Err("DuplicateKey")]
        ELSE InsertLoop([table EXCEPT !.data = Append(@, StoredRow(full.row))],
                        col_list, values, k + 1, inserted_rows + 1)

\* Mutant: a failed call rolls back the rows it had appended.
insert_Rollback(tabs, table_name, col_list, values) ==
    LET t == FindTable(tabs, table_name) IN
    IF t = 0 THEN [tables |-> tabs, res |-> Err("TableNotFound")]
    ELSE
        LET out == InsertLoop(tabs[t], col_list, values, 1, 0) IN
        IF out.res.ok
        THEN [tables |-> [tabs EXCEPT ![t] = out.table], res |-> out.res]
        ELSE [tables |-> tabs, res |-> out.res]

insert(tabs, table_name, col_list, values) ==
    LET t == FindTable(tabs, table_name) IN
    IF t = 0 THEN [tables |-> tabs, res |-> Err("TableNotFound")]
    ELSE
        LET out == InsertLoop(tabs[t], col_list, values, 1, 0) IN
        [tables |-> [tabs EXCEPT ![t] = out.table], res |-> out.res]

(***************************************************************************)
(* Byte offsets.  The code indexes and slices strings by UTF-8 byte offset *)
(* (0-based); slicing off a character boundary panics.                     *)
(***************************************************************************)
\* The byte offset just after the first i characters of s.
ByteOffset(s, i) == StrLen(SubSeq(s, 1, i))

IsCharBoundary(s, b) == \E i \in 0..Len(s) : ByteOffset(s, i) = b

CharsBefore(s, b) == CHOOSE i \in 0..Len(s) : ByteOffset(s, i) = b

\* &s[a..b]: panics unless a <= b <= s.len() and both are char boundaries.
ByteSliceOk(s, a, b) ==
    a <= b /\ b <= StrLen(s) /\ IsCharBoundary(s, a) /\ IsCharBoundary(s, b)

ByteSlice(s, a, b) == SubSeq(s, CharsBefore(s, a) + 1, CharsBefore(s, b))

\* s.as_bytes(): NBSP is the two bytes C2 A0, every other character one byte.
RECURSIVE Bytes(_)
Bytes(s) ==
    IF s = <<>> THEN <<>>
    ELSE (IF Head(s) = NBSP THEN <<"0xC2", "0xA0">> ELSE <<Head(s)>>) \o Bytes(Tail(s))

\* str::replace('\u{00A0}', " ")
ReplaceNbsp(s) == [i \in 1..Len(s) |-> IF s[i] = NBSP THEN " " ELSE s[i]]

\* str::matches(c).count()
CountChar(s, c) == Cardinality({i \in 1..Len(s) : s[i] = c})

(***************************************************************************)
(* Database::parse_single_condition                                        *)
(***************************************************************************)
\* The first index j > i with s[j] = q, 0 when there is none.
NextIndexOf(s, i, q) ==
    IF \E j \in (i + 1)..Len(s) : s[j] = q
    THEN CHOOSE j \in (i + 1)..Len(s) :
            s[j] = q /\ \A k \in (i + 1)..(j - 1) : s[k] # q
    ELSE 0

\* The end of the run of non-whitespace characters that starts at i.
RECURSIVE RunEnd(_, _)
RunEnd(s, i) ==
    IF i < Len(s) /\ ~IsWhitespace(s[i + 1]) THEN RunEnd(s, i + 1) ELSE i

\* Regex (?:("[^"]*")|('[^']*')|(\S+)) with find_iter: leftmost match,
\* alternatives tried in order.
RECURSIVE RegexParts(_, _)
RegexParts(s, i) ==
    IF i > Len(s) THEN <<>>
    ELSE IF IsWhitespace(s[i]) THEN RegexParts(s, i + 1)
    ELSE
        LET close == IF s[i] \in {"\"", "'"} THEN NextIndexOf(s, i, s[i]) ELSE 0
            j == IF close # 0 THEN close ELSE RunEnd(s, i)
        IN  <<SubSeq(s, i, j)>> \o RegexParts(s, j + 1)

T_IS == <<"I","S">>
T_NULL == <<"N","U","L","L">>
T_NOT_NULL == <<"N","O","T"," ","N","U","L","L">>

CondErr == [tag |-> "err"]
CondPanic == [tag |-> "panic"]
CondOk(pred) == [tag |-> "ok", pred |-> pred]

parse_single_condition(cond, columns) ==
    LET parts == RegexParts(cond, 1) IN
    IF Len(parts) # 3
       /\ ~(Len(parts) = 4 /\ parts[2] = T_IS
            /\ (parts[4] = T_NULL \/ parts[4] = T_NOT_NULL))
    THEN CondErr
    ELSE
        LET col == parts[1]
            op == parts[2]
            raw_val == IF Len(parts) = 4 THEN parts[3] \o <<" ">> \o parts[4]
                       ELSE parts[3]
            val == TrimMatches(raw_val, {"\"", "'"})
            col_idx == PositionOfColumn(columns, col)
        IN  IF col_idx = 0 THEN CondErr
            ELSE IF op = <<">">> THEN CondOk([op |-> "gt", idx |-> col_idx, val |-> val])
            ELSE IF op = <<"<">> THEN CondOk([op |-> "lt", idx |-> col_idx, val |-> val])
            ELSE IF op = <<"=">> THEN CondOk([op |-> "eq", idx |-> col_idx, val |-> val])
            ELSE IF op = T_IS /\ val = T_NULL
                 THEN CondOk([op |-> "isnull", idx |-> col_idx, val |-> val])
            ELSE IF op = T_IS /\ val = T_NOT_NULL
                 THEN CondOk([op |-> "notnull", idx |-> col_idx, val |-> val])
            ELSE CondErr

(***************************************************************************)
(* Database::find_outer_operator                                           *)
(*                                                                         *)
(* paren_depth is a usize: the subtraction at line 548 panics when it goes *)
(* below zero in a build with overflow checks and wraps otherwise; a       *)
(* wrapped value is non-zero exactly when the integer difference is, so    *)
(* the unchecked build is modelled with the plain integer.                  *)
(***************************************************************************)
\* The first byte offset >= start where op occurs in s_lower, -1 for None.
FindFrom(s_lower, op, start) ==
    LET hits == {p \in start..(Len(s_lower) - Len(op)) :
                    SubSeq(s_lower, p + 1, p + Len(op)) = op}
    IN  IF hits = {} THEN -1
        ELSE CHOOSE p \in hits : \A q \in hits : p <= q

RECURSIVE FindOuterLoop(_, _, _, _, _, _)
FindOuterLoop(s, s_lower, op_lower, start, paren_depth, overflow_checks) ==
    LET absolute_pos == FindFrom(s_lower, op_lower, start) IN
    IF absolute_pos = -1 THEN [tag |-> "none", pos |-> 0]
    ELSE
        LET substr == SubSeq(s, 1, absolute_pos)
            opened == paren_depth + CountChar(substr, "(")
            depth == opened - CountChar(substr, ")")
            in_quotes == CountChar(substr, "\"") % 2 # 0
                         \/ CountChar(substr, "'") % 2 # 0
            is_complete ==
                /\ (absolute_pos = 0 \/ IsAsciiWhitespace(s[absolute_pos]))
                /\ (absolute_pos + Len(op_lower) >= Len(s)
                    \/ IsAsciiWhitespace(s[absolute_pos + Len(op_lower) + 1]))
        IN  IF overflow_checks /\ depth < 0 THEN [tag |-> "panic", pos |-> 0]
            ELSE IF depth = 0 /\ ~in_quotes /\ is_complete
                 THEN [tag |-> "some", pos |-> absolute_pos]
            ELSE FindOuterLoop(s, s_lower, op_lower, absolute_pos + Len(op_lower),
                               depth, overflow_checks)

\* s is the string, op the operator in upper case; positions are byte offsets.
find_outer_operator(s, op, overflow_checks) ==
    FindOuterLoop(Bytes(s), Bytes(ToLower(s)), ToLower(op), 0, 0, overflow_checks)

(***************************************************************************)
(* Database::parse_condition                                               *)
(***************************************************************************)
\* Lines 433-444: a space inside quotes becomes U+00A0; either quote
\* character toggles the one in_quotes flag.
RECURSIVE QuoteSpaces(_, _)
QuoteSpaces(s, in_quotes) ==
    IF s = <<>> THEN <<>>
    ELSE IF Head(s) \in {"\"", "'"}
         THEN <<Head(s)>> \o QuoteSpaces(Tail(s), ~in_quotes)
    ELSE IF Head(s) = " " /\ in_quotes
         THEN <<NBSP>> \o QuoteSpaces(Tail(s), in_quotes)
    ELSE <<Head(s)>> \o QuoteSpaces(Tail(s), in_quotes)

\* Lines 451-458: end_pos is compared with the byte length and used as a
\* character index by chars().nth(end_pos).
RECURSIVE ParenScan(_, _, _)
ParenScan(modified_cond, end_pos, paren_depth) ==
    IF end_pos < StrLen(modified_cond) /\ paren_depth > 0 THEN
        LET c == IF end_pos + 1 <= Len(modified_cond)
                 THEN modified_cond[end_pos + 1] ELSE "None"
        IN  ParenScan(modified_cond, end_pos + 1,
                      IF c = "(" THEN paren_depth + 1
                      ELSE IF c = ")" THEN paren_depth - 1
                      ELSE paren_depth)
    ELSE [end_pos |-> end_pos, paren_depth |-> paren_depth]

T_AND == <<"A","N","D">>
T_OR == <<"O","R">>

\* Mutant: the two closures are always joined with &&.
Combine_AlwaysAnd(op, left, right) ==
    IF left.tag # "ok" THEN left
    ELSE IF right.tag # "ok" THEN right
    ELSE CondOk([op |-> "and", l |-> left.pred, r |-> right.pred])

\* left? then right?, combined: an error or panic of the left operand is
\* returned before the right operand is compiled.
Combine(op, left, right) ==
    IF left.tag # "ok" THEN left
    ELSE IF right.tag # "ok" THEN right
    ELSE CondOk([op |-> op, l |-> left.pred, r |-> right.pred])

RECURSIVE parse_condition(_, _, _)
RECURSIVE ParseParens(_, _, _)
RECURSIVE ParseSplit(_, _, _, _, _)
RECURSIVE ParseOperators(_, _, _)

\* Lines 492-508 (op = AND) and 511-527 (op = OR) once the operator is found
\* at byte offset pos.
ParseSplit(modified_cond, op, pos, columns, overflow_checks) ==
    LET left == Trim(ByteSlice(modified_cond, 0, pos))
        right == ReplaceNbsp(Trim(ByteSlice(modified_cond, pos + Len(op),
                                            StrLen(modified_cond))))
    IN  IF left = <<>> THEN parse_condition(right, columns, overflow_checks)
        ELSE Combine(IF op = T_AND THEN "and" ELSE "or",
                     parse_condition(ReplaceNbsp(left), columns, overflow_checks),
                     parse_condition(right, columns, overflow_checks))

\* Lines 491-532: AND is looked for first, then OR, then a single comparison.
ParseOperators(modified_cond, columns, overflow_checks) ==
    LET and_pos == find_outer_operator(modified_cond, T_AND, overflow_checks) IN
    IF and_pos.tag = "panic" THEN CondPanic
    ELSE IF and_pos.tag = "some"
    THEN ParseSplit(modified_cond, T_AND, and_pos.pos, columns, overflow_checks)
    ELSE
        LET or_pos == find_outer_operator(modified_cond, T_OR, overflow_checks) IN
        IF or_pos.tag = "panic" THEN CondPanic
        ELSE IF or_pos.tag = "some"
        THEN ParseSplit(modified_cond, T_OR, or_pos.pos, columns, overflow_checks)
        ELSE parse_single_condition(ReplaceNbsp(modified_cond), columns)

\* Lines 447-489: a condition that starts with '('.
ParseParens(modified_cond, columns, overflow_checks) ==
    LET scan == ParenScan(modified_cond, 1, 1)
        end_pos == scan.end_pos
    IN  IF scan.paren_depth # 0
        THEN ParseOperators(modified_cond, columns, overflow_checks)
        ELSE IF ~ByteSliceOk(modified_cond, 1, end_pos - 1)
                \/ ~ByteSliceOk(modified_cond, end_pos, StrLen(modified_cond))
        THEN CondPanic
        ELSE
            LET inside == ReplaceNbsp(ByteSlice(modified_cond, 1, end_pos - 1))
                remaining == Trim(ReplaceNbsp(
                    ByteSlice(modified_cond, end_pos, StrLen(modified_cond))))
            IN  IF remaining = <<>>
                THEN parse_condition(inside, columns, overflow_checks)
                ELSE IF StartsWith(remaining, T_AND)
                THEN Combine("and",
                        parse_condition(inside, columns, overflow_checks),
                        parse_condition(Trim(SubSeq(remaining, 4, Len(remaining))),
                                        columns, overflow_checks))
                ELSE IF StartsWith(remaining, T_OR)
                THEN Combine("or",
                        parse_condition(inside, columns, overflow_checks),
                        parse_condition(Trim(SubSeq(remaining, 3, Len(remaining))),
                                        columns, overflow_checks))
                ELSE Combine("and",
                        parse_condition(inside, columns, overflow_checks),
                        parse_condition(remaining, columns, overflow_checks))

parse_condition(cond_in, columns, overflow_checks) ==
    LET cond == Trim(cond_in) IN
    IF cond = <<>> THEN CondErr
    ELSE
        LET modified_cond == QuoteSpaces(cond, FALSE) IN
        IF Head(modified_cond) = "("
        THEN ParseParens(modified_cond, columns, overflow_checks)
        ELSE ParseOperators(modified_cond, columns, overflow_checks)

\* Mutant: = compares without regard to letter case.
RECURSIVE EvalPred_EqIgnoresCase(_, _)
EvalPred_EqIgnoresCase(pred, row) ==
    IF pred.op = "and"
    THEN EvalPred_EqIgnoresCase(pred.l, row) /\ EvalPred_EqIgnoresCase(pred.r, row)
    ELSE IF pred.op = "or"
    THEN EvalPred_EqIgnoresCase(pred.l, row) \/ EvalPred_EqIgnoresCase(pred.r, row)
    ELSE
        LET cell == TrimMatches(row[pred.idx], {"\""}) IN
        IF pred.op = "gt" THEN ParseI32Or0(cell) > ParseI32Or0(pred.val)
        ELSE IF pred.op = "lt" THEN ParseI32Or0(cell) < ParseI32Or0(pred.val)
        ELSE IF pred.op = "eq" THEN ToLower(cell) = ToLower(pred.val)
        ELSE IF pred.op = "isnull" THEN cell = <<>>
        ELSE cell # <<>>

\* The compiled closure applied to a row.
RECURSIVE EvalPred(_, _)
EvalPred(pred, row) ==
    IF pred.op = "and" THEN EvalPred(pred.l, row) /\ EvalPred(pred.r, row)
    ELSE IF pred.op = "or" THEN EvalPred(pred.l, row) \/ EvalPred(pred.r, row)
    ELSE
        LET cell == TrimMatches(row[pred.idx], {"\""}) IN
        IF pred.op = "gt" THEN ParseI32Or0(cell) > ParseI32Or0(pred.val)
        ELSE IF pred.op = "lt" THEN ParseI32Or0(cell) < ParseI32Or0(pred.val)
        ELSE IF pred.op = "eq" THEN cell = pred.val
        ELSE IF pred.op = "isnull" THEN cell = <<>>
        ELSE cell # <<>>

(***************************************************************************)
(* Database::update                                                        *)
(***************************************************************************)
\* column_map.get(name): the map is collected from (name, index) pairs in
\* column order, so a repeated name keeps its last index; 0 for None.
ColumnMapGet(columns, name) ==
    IF \E i \in 1..Len(columns) : columns[i].name = name
    THEN CHOOSE i \in 1..Len(columns) :
            /\ columns[i].name = name
            /\ \A j \in (i + 1)..Len(columns) : columns[j].name # name
    ELSE 0

\* Lines 175-183: quotes are stripped, the bare token NULL becomes "".
ProcessSetValue(value) ==
    IF StartsWith(value, <<"\"">>) /\ EndsWith(value, <<"\"">>)
    THEN TrimMatches(value, {"\""})
    ELSE IF StartsWith(value, <<"'">>) /\ EndsWith(value, <<"'">>)
    THEN TrimMatches(value, {"'"})
    ELSE IF EqIgnoreAsciiCase(value, NullToken) THEN <<>>
    ELSE value

ProcessedSet(set) ==
    [i \in 1..Len(set) |-> [col |-> set[i].col, val |-> ProcessSetValue(set[i].val)]]

\* Mutant: the duplicate check of lines 188-197 left out.
UpdateDuplicatePrimary_Skipped(columns, data, processed_set) == "none"

\* Lines 188-197: the assignments are taken in order and, for one to a
\* primary column, the rows in storage order (any stops at its first hit).
\* The first row that ends the search decides: "DuplicateKey" when its
\* primary cell equals the new value, "panic" when the row has no cell at
\* that position (&row[*idx] is out of bounds); "none" when no row does.
UpdateDuplicatePrimary(columns, data, processed_set) ==
    LET Idx(i) == ColumnMapGet(columns, processed_set[i].col)
        Ends(i, r) ==
            /\ Idx(i) # 0
            /\ columns[Idx(i)].is_primary
            /\ \/ Len(data[r]) < Idx(i)
               \/ data[r][Idx(i)] = processed_set[i].val
        ends == {h \in (1..Len(processed_set)) \X (1..Len(data)) : Ends(h[1], h[2])}
    IN
    IF ends = {} THEN "none"
    ELSE
        LET first == CHOOSE h \in ends :
                        \A g \in ends : h[1] < g[1] \/ (h[1] = g[1] /\ h[2] <= g[2])
        IN IF Len(data[first[2]]) < Idx(first[1]) THEN "panic" ELSE "DuplicateKey"

\* Lines 225-240: the checks made on one assignment before it is applied.
AssignmentError(column, new_value) ==
    IF column.data_type.tag = "Int" /\ ~ParseI32(new_value).ok THEN "TypeMismatch"
    ELSE IF column.data_type.tag = "Varchar" /\ StrLen(new_value) > column.data_type.n
    THEN "ValueTooLong"
    ELSE IF column.not_null /\ new_value = <<>> THEN "MissingValue"
    ELSE "none"

\* Mutant: the loop over the assignments stops after the first one.
AssignLoop_FirstOnly(columns, processed_set, j, row) ==
    IF j > Len(processed_set) THEN [row |-> row, err |-> "none"]
    ELSE
        LET idx == ColumnMapGet(columns, processed_set[j].col) IN
        IF idx = 0 THEN [row |-> row, err |-> "none"]
        ELSE
            LET e == AssignmentError(columns[idx], processed_set[j].val) IN
            IF e # "none" THEN [row |-> row, err |-> e]
            ELSE IF idx > Len(row) THEN [row |-> row, err |-> "panic"]
            ELSE [row |-> [row EXCEPT ![idx] = processed_set[j].val], err |-> "none"]

\* Mutant: an assignment to a column the table does not have is an error.
RECURSIVE AssignLoop_UnknownColumnError(_, _, _, _)
AssignLoop_UnknownColumnError(columns, processed_set, j, row) ==
    IF j > Len(processed_set) THEN [row |-> row, err |-> "none"]
    ELSE
        LET idx == ColumnMapGet(columns, processed_set[j].col) IN
        IF idx = 0 THEN [row |-> row, err |-> "ColumnNotFound"]
        ELSE
            LET e == AssignmentError(columns[idx], processed_set[j].val) IN
            IF e # "none" THEN [row |-> row, err |-> e]
            ELSE IF idx > Len(row) THEN [row |-> row, err |-> "panic"]
            ELSE AssignLoop_UnknownColumnError(columns, processed_set, j + 1,
                            [row EXCEPT ![idx] = processed_set[j].val])

\* Lines 222-244: the assignments of the SET list applied to one row, in
\* order.  The row is written in place, so at an error it keeps the
\* assignments made before the failing one.  Line 242 indexes the row at the
\* column's position: on a row with no cell there the index is out of
\* bounds and the call panics, after the checks of that assignment.
RECURSIVE AssignLoop(_, _, _, _)
AssignLoop(columns, processed_set, j, row) ==
    IF j > Len(processed_set) THEN [row |-> row, err |-> "none"]
    ELSE
        LET idx == ColumnMapGet(columns, processed_set[j].col) IN
        IF idx = 0 THEN AssignLoop(columns, processed_set, j + 1, row)
        ELSE
            LET e == AssignmentError(columns[idx], processed_set[j].val) IN
            IF e # "none" THEN [row |-> row, err |-> e]
            ELSE IF idx > Len(row) THEN [row |-> row, err |-> "panic"]
            ELSE AssignLoop(columns, processed_set, j + 1,
                            [row EXCEPT ![idx] = processed_set[j].val])

\* filter_fn of update and delete.  cond is [some |-> FALSE] or
\* [some |-> TRUE, text |-> ...].  The closure compiles the condition anew
\* for every row it is given, always with the same outcome, so the outcome
\* is computed once here and looked at per row in FilterRow: with no row,
\* a condition that fails to compile, or panics, goes unnoticed.
CompileFilter(cond, columns, overflow_checks) ==
    IF cond.some THEN parse_condition(cond.text, columns, overflow_checks)
    ELSE [tag |-> "all"]

\* "true" / "false" for the row, "panic" when compiling panics; a compile
\* error matches no row.
FilterRow(compiled, row) ==
    IF compiled.tag = "all" THEN "true"
    ELSE IF compiled.tag = "panic" THEN "panic"
    ELSE IF compiled.tag = "err" THEN "false"
    ELSE IF EvalPred(compiled.pred, row) THEN "true" ELSE "false"

\* Lines 218-248: the rows are visited in storage order.  An error or a
\* panic in a row's assignments ends the call there: the rows before it are
\* updated, the row itself keeps the assignments made before the failing
\* one, and the rows after it are not visited.
RECURSIVE UpdateLoop(_, _, _, _, _)
UpdateLoop(table, processed_set, compiled, r, affected_rows) ==
    IF r > Len(table.data) THEN [table |-> table, res |-> Ok(affected_rows)]
    ELSE
        LET m == FilterRow(compiled, table.data[r]) IN
        IF m = "panic" THEN [table |-> table, res |-> Err("panic")]
        ELSE IF m = "false"
        THEN UpdateLoop(table, processed_set, compiled, r + 1, affected_rows)
        ELSE
            LET a == AssignLoop(table.columns, processed_set, 1, table.data[r])
                t2 == [table EXCEPT !.data[r] = a.row]
            IN  IF a.err # "none" THEN [table |-> t2, res |-> Err(a.err)]
                ELSE UpdateLoop(t2, processed_set, compiled, r + 1, affected_rows + 1)

update(tabs, table_name, set, cond, overflow_checks) ==
    LET t == FindTable(tabs, table_name) IN
    IF t = 0 THEN [tables |-> tabs, res |-> Err("TableNotFound")]
    ELSE IF UpdateDuplicatePrimary(tabs[t].columns, tabs[t].data, ProcessedSet(set)) # "none"
    THEN [tables |-> tabs,
          res |-> Err(UpdateDuplicatePrimary(tabs[t].columns, tabs[t].data, ProcessedSet(set)))]
    ELSE
        LET compiled == CompileFilter(cond, tabs[t].columns, overflow_checks)
            out == UpdateLoop(tabs[t], ProcessedSet(set), compiled, 1, 0)
        IN
        [tables |-> [tabs EXCEPT ![t] = out.table], res |-> out.res]

(***************************************************************************)
(* Database::delete                                                        *)
(***************************************************************************)
\* Mutant: retain(|row| filter_fn(row)), the negation left out.
RetainLoop_KeepsMatching(data, compiled, r) ==
    [data |-> SelectSeq(data, LAMBDA row : FilterRow(compiled, row) = "true"),
     panic |-> \E i \in 1..Len(data) : FilterRow(compiled, data[i]) = "panic"]

\* Vec::retain(|row| !filter_fn(row))
RECURSIVE RetainLoop(_, _, _)
RetainLoop(data, compiled, r) ==
    IF r > Len(data) THEN [data |-> <<>>, panic |-> FALSE]
    ELSE
        LET m == FilterRow(compiled, data[r]) IN
        IF m = "panic" THEN [data |-> <<>>, panic |-> TRUE]
        ELSE
            LET rest == RetainLoop(data, compiled, r + 1) IN
            [data |-> IF m = "true" THEN rest.data ELSE <<data[r]>> \o rest.data,
             panic |-> rest.panic]

delete(tabs, table_name, cond, overflow_checks) ==
    LET t == FindTable(tabs, table_name) IN
    IF t = 0 THEN [tables |-> tabs, res |-> Err("TableNotFound")]
    ELSE
        LET compiled == CompileFilter(cond, tabs[t].columns, overflow_checks)
            kept == RetainLoop(tabs[t].data, compiled, 1)
        IN
        IF kept.panic THEN [tables |-> tabs, res |-> Err("panic")]
        ELSE [tables |-> [tabs EXCEPT ![t].data = kept.data],
              res |-> Ok(Len(tabs[t].data) - Len(kept.data))]

(***************************************************************************)
(* Database::drop_tables                                                   *)
(***************************************************************************)
SeqContains(seq, x) == \E i \in 1..Len(seq) : seq[i] = x

\* Mutant: only the first name of the list is looked at.
RetainTables_FirstNameOnly(tabs, table_names) ==
    SelectSeq(tabs, LAMBDA t : table_names = <<>> \/ t.name # table_names[1])

RECURSIVE RetainTables(_, _)
RetainTables(tabs, table_names) ==
    IF tabs = <<>> THEN <<>>
    ELSE (IF SeqContains(table_names, Head(tabs).name) THEN <<>> ELSE <<Head(tabs)>>)
         \o RetainTables(Tail(tabs), table_names)

\* Mutant: the existence check of lines 313-319 left out.
drop_tables_NoExistenceCheck(tabs, table_names, if_exists) ==
    LET kept == RetainTables(tabs, table_names)
        dropped_count == Len(tabs) - Len(kept)
    IN  IF dropped_count = 0 /\ ~if_exists
        THEN [tables |-> kept, res |-> Err("NoTablesDropped")]
        ELSE [tables |-> kept, res |-> Ok(dropped_count)]

drop_tables(tabs, table_names, if_exists) ==
    IF ~if_exists
       /\ \E i \in 1..Len(table_names) :
            ~\E j \in 1..Len(tabs) : tabs[j].name = table_names[i]
    THEN [tables |-> tabs, res |-> Err("TableNotFound")]
    ELSE
        LET kept == RetainTables(tabs, table_names)
            dropped_count == Len(tabs) - Len(kept)
        IN  IF dropped_count = 0 /\ ~if_exists
            THEN [tables |-> kept, res |-> Err("NoTablesDropped")]
            ELSE [tables |-> kept, res |-> Ok(dropped_count)]

(***************************************************************************)
(* Database::select                                                        *)
(***************************************************************************)
\* The printable ASCII characters in code order, starting at code 32; the
\* grave accent (code 96) is written GRAVE.
AsciiChars ==
    <<" ", "!", "\"", "#", "$", "%", "&", "'", "(", ")", "*", "+", ",", "-",
      ".", "/", "0", "1", "2", "3", "4", "5", "6", "7", "8", "9", ":", ";",
      "<", "=", ">", "?", "@", "A", "B", "C", "D", "E", "F", "G", "H", "I",
      "J", "K", "L", "M", "N", "O", "P", "Q", "R", "S", "T", "U", "V", "W",
      "X", "Y", "Z", "[", "\\", "]", "^", "_", "GRAVE", "a", "b", "c", "d", "e",
      "f", "g", "h", "i", "j", "k", "l", "m", "n", "o", "p", "q", "r", "s",
      "t", "u", "v", "w", "x", "y", "z", "{", "|", "}", "~">>

\* The first UTF-8 byte of the character: its code for the control
\* characters, printable ASCII and U+007F; U+00A0 is encoded C2 A0.
CharCodes ==
    [c \in {AsciiChars[i] : i \in 1..Len(AsciiChars)}
           \cup DOMAIN ControlCodes \cup {DEL, NBSP} |->
        IF c = NBSP THEN 194
        ELSE IF c = DEL THEN 127
        ELSE IF c \in DOMAIN ControlCodes THEN ControlCodes[c]
        ELSE (CHOOSE i \in 1..Len(AsciiChars) : AsciiChars[i] = c) + 31]

CharCode(c) == CharCodes[c]

\* Ordering::Less, Equal, Greater as -1, 0, 1; reverse() is negation.
\* String::cmp: byte-wise lexicographic, a proper prefix is less.
RECURSIVE StringCmp(_, _)
StringCmp(x, y) ==
    IF x = <<>> THEN (IF y = <<>> THEN 0 ELSE -1)
    ELSE IF y = <<>> THEN 1
    ELSE IF CharCode(Head(x)) < CharCode(Head(y)) THEN -1
    ELSE IF CharCode(Head(x)) > CharCode(Head(y)) THEN 1
    ELSE StringCmp(Tail(x), Tail(y))

\* i32::cmp
IntCmp(x, y) == IF x < y THEN -1 ELSE IF x > y THEN 1 ELSE 0

Star == <<"*">>

\* Lines 347-354: the indices of the projected columns, or the first
\* requested column that the table does not have.
ColumnIndices(table_columns, columns) ==
    IF columns = <<Star>>
    THEN [ok |-> TRUE, idx |-> [i \in 1..Len(table_columns) |-> i]]
    ELSE IF \E i \in 1..Len(columns) : PositionOfColumn(table_columns, columns[i]) = 0
    THEN [ok |-> FALSE, idx |-> <<>>]
    ELSE [ok |-> TRUE,
          idx |-> [i \in 1..Len(columns) |-> PositionOfColumn(table_columns, columns[i])]]

\* Lines 378-383: (col_idx, data_type, desc) for every sort key.
SortSpecs(table_columns, cols) ==
    IF \E i \in 1..Len(cols) : PositionOfColumn(table_columns, cols[i].col) = 0
    THEN [ok |-> FALSE, specs |-> <<>>]
    ELSE [ok |-> TRUE,
          specs |-> [i \in 1..Len(cols) |->
                        [col_idx |-> PositionOfColumn(table_columns, cols[i].col),
                         data_type |-> table_columns[
                             PositionOfColumn(table_columns, cols[i].col)].data_type,
                         desc |-> cols[i].desc]]]

\* Mutant: the cells of an Int column compared as strings.
KeyOrdering_AsStrings(spec, a_row, b_row) ==
    StringCmp(a_row[spec.col_idx], b_row[spec.col_idx])

\* Lines 391-397: the ordering of two rows on one sort key.
KeyOrdering(spec, a_row, b_row) ==
    IF spec.data_type.tag = "Int"
    THEN IntCmp(ParseI32Or0(a_row[spec.col_idx]), ParseI32Or0(b_row[spec.col_idx]))
    ELSE StringCmp(a_row[spec.col_idx], b_row[spec.col_idx])

\* Mutant: the direction of a key is not looked at.
RowOrdering_AscendingOnly(sort_specs, k, a_row, b_row) ==
    LET differ == {i \in k..Len(sort_specs) :
                        KeyOrdering(sort_specs[i], a_row, b_row) # 0}
    IN  IF differ = {} THEN 0
        ELSE KeyOrdering(sort_specs[CHOOSE i \in differ : \A j \in differ : i <= j],
                         a_row, b_row)

\* Lines 386-406, the comparator given to sort_by, from key k on: a
\* descending key returns its reversed ordering at once, equal or not; an
\* ascending key returns only when the rows differ on it.
RECURSIVE RowOrdering(_, _, _, _)
RowOrdering(sort_specs, k, a_row, b_row) ==
    IF k > Len(sort_specs) THEN 0
    ELSE
        LET ordering == KeyOrdering(sort_specs[k], a_row, b_row) IN
        IF sort_specs[k].desc THEN -ordering
        ELSE IF ordering # 0 THEN ordering
        ELSE RowOrdering(sort_specs, k + 1, a_row, b_row)

\* Mutant: a row is placed before the rows it compares equal to.
PlaceRow_BeforeEquals(sorted, sort_specs, row) ==
    LET before == {i \in 1..Len(sorted) :
                        RowOrdering(sort_specs, 1, sorted[i], row) < 0}
        n == Cardinality(before)
    IN  SubSeq(sorted, 1, n) \o <<row>> \o SubSeq(sorted, n + 1, Len(sorted))

\* slice::sort_by is a stable sort: a row goes behind the rows that do not
\* compare greater than it.  sorted is ordered, so these rows are a prefix.
PlaceRow(sorted, sort_specs, row) ==
    LET before == {i \in 1..Len(sorted) :
                        RowOrdering(sort_specs, 1, sorted[i], row) <= 0}
        n == Cardinality(before)
    IN  SubSeq(sorted, 1, n) \o <<row>> \o SubSeq(sorted, n + 1, Len(sorted))

RECURSIVE SortBy(_, _, _, _)
SortBy(rows, sort_specs, r, sorted) ==
    IF r > Len(rows) THEN sorted
    ELSE SortBy(rows, sort_specs, r + 1, PlaceRow(sorted, sort_specs, rows[r]))

SelectOk(rows, has_data) ==
    [res |-> Ok(0), rows |-> rows, has_data |-> has_data]
SelectErr(kind) == [res |-> Err(kind), rows |-> <<>>, has_data |-> FALSE]

\* Mutant: the rows returned whole.
Project_WholeRows(rows, column_indices) == rows

\* Lines 409-414: the projection of the rows onto column_indices.
Project(rows, column_indices) ==
    [r \in 1..Len(rows) |->
        [i \in 1..Len(column_indices) |-> rows[r][column_indices[i]]]]

\* Mutant: the rows are projected first and sorted afterwards, on keys
\* looked up among the projected columns.
select_ProjectFirst(tabs, table_name, columns, condition, order_by, overflow_checks) ==
    LET t == FindTable(tabs, table_name) IN
    IF t = 0 THEN SelectErr("TableNotFound")
    ELSE
        LET ci == ColumnIndices(tabs[t].columns, columns)
            compiled == CompileFilter(condition, tabs[t].columns, overflow_checks)
        IN
        IF ~ci.ok THEN SelectErr("ColumnNotFound")
        ELSE IF compiled.tag = "panic" THEN SelectErr("panic")
        ELSE IF compiled.tag = "err" THEN SelectErr("ParseError")
        ELSE
            LET matching == SelectSeq(tabs[t].data,
                                LAMBDA row : FilterRow(compiled, row) = "true")
            IN
            IF matching = <<>> THEN SelectOk(<<>>, FALSE)
            ELSE IF ~order_by.some THEN SelectOk(Project(matching, ci.idx), TRUE)
            ELSE
                LET ss == SortSpecs([i \in 1..Len(ci.idx) |-> tabs[t].columns[ci.idx[i]]],
                                    order_by.cols)
                IN
                IF ~ss.ok THEN SelectErr("SortColumnNotFound")
                ELSE SelectOk(SortBy(Project(matching, ci.idx), ss.specs, 1, <<>>), TRUE)

\* Lines 334-417.  order_by is [some |-> FALSE] or
\* [some |-> TRUE, cols |-> <<[col |-> ..., desc |-> ...], ...>>].
select(tabs, table_name, columns, condition, order_by, overflow_checks) ==
    LET t == FindTable(tabs, table_name) IN
    IF t = 0 THEN SelectErr("TableNotFound")
    ELSE
        LET ci == ColumnIndices(tabs[t].columns, columns)
            compiled == CompileFilter(condition, tabs[t].columns, overflow_checks)
        IN
        IF ~ci.ok THEN SelectErr("ColumnNotFound")
        ELSE IF compiled.tag = "panic" THEN SelectErr("panic")
        ELSE IF compiled.tag = "err" THEN SelectErr("ParseError")
        ELSE
            LET matching == SelectSeq(tabs[t].data,
                                LAMBDA row : FilterRow(compiled, row) = "true")
            IN
            IF matching = <<>> THEN SelectOk(<<>>, FALSE)
            ELSE IF ~order_by.some THEN SelectOk(Project(matching, ci.idx), TRUE)
            ELSE
                LET ss == SortSpecs(tabs[t].columns, order_by.cols) IN
                IF ~ss.ok THEN SelectErr("SortColumnNotFound")
                ELSE SelectOk(Project(SortBy(matching, ss.specs, 1, <<>>), ci.idx), TRUE)

(***************************************************************************)
(* CommandHistory (history.rs).  A history is the record                   *)
(* [commands, max_size, current_index]; commands is the VecDeque, front    *)
(* first.  An Option<&str> is [some |-> FALSE] or [some |-> TRUE, text].   *)
(***************************************************************************)
\* The ASCII part of str::to_uppercase.
ToUpperChar(c) ==
    IF \E i \in 1..Len(LowerChars) : LowerChars[i] = c
    THEN UpperChars[CHOOSE i \in 1..Len(LowerChars) : LowerChars[i] = c]
    ELSE c

ToUpper(s) == [i \in 1..Len(s) |-> ToUpperChar(s[i])]

\* usize::MAX of a 64-bit target, as its decimal digits.
UsizeMaxDigits ==
    <<"1", "8", "4", "4", "6", "7", "4", "4", "0", "7", "3", "7", "0", "9",
      "5", "5", "1", "6", "1", "5">>

\* a <= b for digit strings of the same length.
RECURSIVE DigitsLeq(_, _)
DigitsLeq(a, b) ==
    IF a = <<>> THEN TRUE
    ELSE IF DigitValue(Head(a)) < DigitValue(Head(b)) THEN TRUE
    ELSE IF DigitValue(Head(a)) > DigitValue(Head(b)) THEN FALSE
    ELSE DigitsLeq(Tail(a), Tail(b))

\* str::parse::<usize>().is_ok(): an optional '+', then one or more ASCII
\* digits whose value does not exceed usize::MAX.
ParseUsizeIsOk(s) ==
    LET digits == IF s # <<>> /\ Head(s) = "+" THEN Tail(s) ELSE s
        significant == TrimMatchesStart(digits, {"0"})
    IN  /\ digits # <<>>
        /\ \A i \in 1..Len(digits) : IsDigit(digits[i])
        /\ \/ Len(significant) < Len(UsizeMaxDigits)
           \/ /\ Len(significant) = Len(UsizeMaxDigits)
              /\ DigitsLeq(significant, UsizeMaxDigits)

NoneStr == [some |-> FALSE]
SomeStr(text) == [some |-> TRUE, text |-> text]

\* CommandHistory::new
CommandHistory_new(max_size) ==
    [commands |-> <<>>, max_size |-> max_size, current_index |-> 0]

\* CommandHistory::len
CommandHistory_len(h) == Len(h.commands)

\* Lines 23-26.
is_history_command(cmd) ==
    LET trimmed == Trim(cmd) IN
    \/ trimmed = <<"!", "!">>
    \/ /\ StartsWith(trimmed, <<"!">>)
       /\ ParseUsizeIsOk(Trim(Tail(trimmed)))

\* Lines 28-31.
should_skip_command(cmd) ==
    LET upper == ToUpper(cmd) IN
    \/ upper = <<"H", "I", "S", "T", "O", "R", "Y">>
    \/ upper = <<"H", "I", "S", "T", "O", "R", "Y", ";">>
    \/ is_history_command(cmd)

\* Lines 82-84.
reset_index(h) == [h EXCEPT !.current_index = Len(h.commands)]

\* Mutant: the pop_front of lines 57-59 left out.
add_NoEviction(h, command) ==
    LET cleaned == Trim(command) IN
    IF cleaned = <<>> \/ should_skip_command(cleaned) THEN h
    ELSE
        LET to_store == IF EndsWith(cleaned, <<";">>)
                           \/ ToLower(cleaned) = <<"e", "x", "i", "t">>
                        THEN cleaned ELSE cleaned \o <<";">>
            check_dup == Trim(TrimMatchesEnd(cleaned, {";"}))
        IN
        IF h.commands # <<>>
           /\ Trim(TrimMatchesEnd(h.commands[Len(h.commands)], {";"})) = check_dup
        THEN h
        ELSE reset_index([h EXCEPT !.commands = Append(h.commands, to_store)])

\* Lines 33-62.
add(h, command) ==
    LET cleaned == Trim(command) IN
    IF cleaned = <<>> \/ should_skip_command(cleaned) THEN h
    ELSE
        LET to_store == IF EndsWith(cleaned, <<";">>)
                           \/ ToLower(cleaned) = <<"e", "x", "i", "t">>
                        THEN cleaned ELSE cleaned \o <<";">>
            check_dup == Trim(TrimMatchesEnd(cleaned, {";"}))
        IN
        IF h.commands # <<>>
           /\ Trim(TrimMatchesEnd(h.commands[Len(h.commands)], {";"})) = check_dup
        THEN h
        ELSE
            LET kept == IF Len(h.commands) >= h.max_size /\ h.commands # <<>>
                        THEN Tail(h.commands) ELSE h.commands
            IN  reset_index([h EXCEPT !.commands = Append(kept, to_store)])

\* VecDeque::get with a 0-based index.
CommandsGet(h, index) ==
    IF index < Len(h.commands) THEN SomeStr(h.commands[index + 1]) ELSE NoneStr

\* Lines 64-71: the history after the call and the value returned.
get_previous(h) ==
    IF h.current_index > 0
    THEN LET h2 == [h EXCEPT !.current_index = h.current_index - 1] IN
         [history |-> h2, ret |-> CommandsGet(h2, h2.current_index)]
    ELSE [history |-> h, ret |-> NoneStr]

\* Mutant: the entry at the new index is returned, not the one before it.
get_next_ReturnsFollowing(h) ==
    IF h.current_index < Len(h.commands)
    THEN LET h2 == [h EXCEPT !.current_index = h.current_index + 1] IN
         [history |-> h2, ret |-> CommandsGet(h2, h2.current_index)]
    ELSE [history |-> h, ret |-> NoneStr]

\* Lines 73-80; saturating_sub(1) of an index that is at least 1.
get_next(h) ==
    IF h.current_index < Len(h.commands)
    THEN LET h2 == [h EXCEPT !.current_index = h.current_index + 1] IN
         [history |-> h2,
          ret |-> CommandsGet(h2, IF h2.current_index = 0 THEN 0
                                  ELSE h2.current_index - 1)]
    ELSE [history |-> h, ret |-> NoneStr]

\* Lines 98-101.
clear(h) == [h EXCEPT !.commands = <<>>, !.current_index = 0]

(***************************************************************************)
(* Persistence (mod.rs 287-307).  save writes the database as the text     *)
(* serde_json::to_string_pretty gives for the derived Serialize of         *)
(* Database, Table, Column and DataType; load reads the text back with     *)
(* serde_json::from_str and the derived Deserialize.  The file             *)
(* data/db.json is the record [exists, text, utf8]: whether it exists, its *)
(* characters, and whether its bytes are UTF-8.                            *)
(***************************************************************************)
K_tables == <<"t", "a", "b", "l", "e", "s">>
K_name == <<"n", "a", "m", "e">>
K_columns == <<"c", "o", "l", "u", "m", "n", "s">>
K_data == <<"d", "a", "t", "a">>
K_data_type == <<"d", "a", "t", "a", "_", "t", "y", "p", "e">>
K_is_primary == <<"i", "s", "_", "p", "r", "i", "m", "a", "r", "y">>
K_not_null == <<"n", "o", "t", "_", "n", "u", "l", "l">>
K_Int == <<"I", "n", "t">>
K_Varchar == <<"V", "a", "r", "c", "h", "a", "r">>
K_true == <<"t", "r", "u", "e">>
K_false == <<"f", "a", "l", "s", "e">>
K_null == <<"n", "u", "l", "l">>

\* Half of a surrogate pair that an escape names without the other half:
\* no character, so no String holds it.
Surrogate == "SURROGATE"

HexChars == <<"0", "1", "2", "3", "4", "5", "6", "7", "8", "9",
              "a", "b", "c", "d", "e", "f">>
UpperHexChars == <<"0", "1", "2", "3", "4", "5", "6", "7", "8", "9",
                   "A", "B", "C", "D", "E", "F">>

HexValues ==
    [c \in {HexChars[i] : i \in 1..Len(HexChars)}
           \cup {UpperHexChars[i] : i \in 1..Len(UpperHexChars)} |->
        IF \E i \in 1..Len(HexChars) : HexChars[i] = c
        THEN (CHOOSE i \in 1..Len(HexChars) : HexChars[i] = c) - 1
        ELSE (CHOOSE i \in 1..Len(UpperHexChars) : UpperHexChars[i] = c) - 1]

\* The character of a code point: a control character, a printable ASCII
\* character, U+007F, U+00A0, or, outside the model's alphabet, the atom
\* that spells the code in decimal.
CharOfCode(n) ==
    IF n < 32 THEN ControlChars[n + 1]
    ELSE IF n < 127 THEN AsciiChars[n - 31]
    ELSE IF n = 127 THEN DEL
    ELSE IF n = 160 THEN NBSP
    ELSE ToString(n)

\* A character that takes more than one byte in UTF-8.
NarrowChars ==
    {AsciiChars[i] : i \in 1..Len(AsciiChars)} \cup DOMAIN ControlCodes \cup {DEL}

IsWide(c) == c \notin NarrowChars

\* A character inside a JSON string as the writer emits it.
JsonEscapeChar(c) ==
    IF c = "\"" THEN <<"\\", "\"">>
    ELSE IF c = "\\" THEN <<"\\", "\\">>
    ELSE IF c = "\n" THEN <<"\\", "n">>
    ELSE IF c = "\t" THEN <<"\\", "t">>
    ELSE IF c = "\r" THEN <<"\\", "r">>
    ELSE IF c = "BS" THEN <<"\\", "b">>
    ELSE IF c = "FF" THEN <<"\\", "f">>
    ELSE IF IsControl(c)
        THEN <<"\\", "u", "0", "0", HexChars[(ControlCodes[c] \div 16) + 1],
               HexChars[(ControlCodes[c] % 16) + 1]>>
    ELSE <<c>>

RECURSIVE JsonEscape(_)
JsonEscape(s) ==
    IF s = <<>> THEN <<>> ELSE JsonEscapeChar(Head(s)) \o JsonEscape(Tail(s))

\* Mutant: the string is written between quotes as it is.
JsonString_Unescaped(s) == <<"\"">> \o s \o <<"\"">>

JsonString(s) == <<"\"">> \o JsonEscape(s) \o <<"\"">>

JsonBool(b) == IF b THEN K_true ELSE K_false

\* The decimal digits of a u32.
RECURSIVE JsonNumber(_)
JsonNumber(n) ==
    IF n < 10 THEN <<DigitChars[n + 1]>>
    ELSE JsonNumber(n \div 10) \o <<DigitChars[(n % 10) + 1]>>

\* PrettyFormatter: two spaces for each level of nesting.
Indent(depth) == [i \in 1..(2 * depth) |-> " "]

\* Every item on a line of its own at the given depth, commas between.
RECURSIVE JsonLines(_, _)
JsonLines(items, depth) ==
    IF Len(items) = 0 THEN <<>>
    ELSE <<"\n">> \o Indent(depth) \o Head(items)
         \o (IF Len(items) > 1 THEN <<",">> ELSE <<>>)
         \o JsonLines(Tail(items), depth)

\* An array whose opening bracket stands at the given depth.
PrettyArray(items, depth) ==
    IF Len(items) = 0 THEN <<"[", "]">>
    ELSE <<"[">> \o JsonLines(items, depth + 1)
         \o <<"\n">> \o Indent(depth) \o <<"]">>

\* An object with the fields <<key, text of the value>>, in that order.
PrettyObject(fields, depth) ==
    <<"{">>
    \o JsonLines([i \in 1..Len(fields) |->
                    JsonString(fields[i][1]) \o <<":", " ">> \o fields[i][2]],
                 depth + 1)
    \o <<"\n">> \o Indent(depth) \o <<"}">>

\* enum DataType is externally tagged: {"Int": 10}.
SerializeDataType(data_type, depth) ==
    PrettyObject(<< <<(IF data_type.tag = "Int" THEN K_Int ELSE K_Varchar),
                      JsonNumber(data_type.n)>> >>, depth)

SerializeColumn(column, depth) ==
    PrettyObject(<< <<K_name, JsonString(column.name)>>,
                    <<K_data_type, SerializeDataType(column.data_type, depth + 1)>>,
                    <<K_is_primary, JsonBool(column.is_primary)>>,
                    <<K_not_null, JsonBool(column.not_null)>> >>, depth)

SerializeRow(row, depth) ==
    PrettyArray([i \in 1..Len(row) |-> JsonString(row[i])], depth)

SerializeTable(table, depth) ==
    PrettyObject(
        << <<K_name, JsonString(table.name)>>,
           <<K_columns,
             PrettyArray([i \in 1..Len(table.columns) |->
                            SerializeColumn(table.columns[i], depth + 2)],
                         depth + 1)>>,
           <<K_data,
             PrettyArray([i \in 1..Len(table.data) |->
                            SerializeRow(table.data[i], depth + 2)],
                         depth + 1)>> >>, depth)

\* serde_json::to_string_pretty(self) of line 292.
to_string_pretty(tabs) ==
    PrettyObject(
        << <<K_tables,
             PrettyArray([i \in 1..Len(tabs) |-> SerializeTable(tabs[i], 2)], 1)>> >>,
        0)

\* The reader.  from_str::<Database> reads the text in one pass: where a
\* struct, a String, a bool or a u32 is expected it reads that type, and
\* the value of a field of another name is passed over, its syntax alone
\* being checked.  The model reads the text into a JSON value first, with
\* the syntax both ways of reading share, and converts the value to the
\* types afterwards.  A JSON value is [kind, v]: null, a string with its
\* characters, a number with its text, a bool, an array with its items,
\* an object with its fields [key, val] in the order read.  A parse step
\* returns [ok, val, pos], pos being the index after what was read.
JsonNone == [kind |-> "none", v |-> <<>>]
JsonFail == [ok |-> FALSE, val |-> JsonNone, pos |-> 0]
JsonRead(kind, v, pos) == [ok |-> TRUE, val |-> [kind |-> kind, v |-> v], pos |-> pos]

JsonAt(text, pos, c) == pos <= Len(text) /\ text[pos] = c

RECURSIVE SkipWs(_, _)
SkipWs(text, pos) ==
    IF pos <= Len(text) /\ text[pos] \in {" ", "\n", "\t", "\r"}
    THEN SkipWs(text, pos + 1) ELSE pos

\* decode_hex_escape: the number the four hexadecimal digits at pos spell,
\* or -1.
Hex4(text, pos) ==
    IF /\ pos + 3 <= Len(text)
       /\ \A i \in 0..3 : text[pos + i] \in DOMAIN HexValues
    THEN 4096 * HexValues[text[pos]] + 256 * HexValues[text[pos + 1]]
         + 16 * HexValues[text[pos + 2]] + HexValues[text[pos + 3]]
    ELSE -1

\* The escape \uXXXX whose digits stand at pos: the character and the index
\* after it.  Two escapes that name the halves of a surrogate pair are one
\* character; a half without the other is kept as Surrogate.
UnicodeEscape(text, pos) ==
    LET n == Hex4(text, pos)
        n2 == IF JsonAt(text, pos + 4, "\\") /\ JsonAt(text, pos + 5, "u")
              THEN Hex4(text, pos + 6) ELSE -1
    IN
    IF n < 0 THEN [ok |-> FALSE, char |-> Surrogate, pos |-> 0]
    ELSE IF n >= 55296 /\ n <= 56319 /\ n2 >= 56320 /\ n2 <= 57343
        THEN [ok |-> TRUE,
              char |-> CharOfCode(65536 + (n - 55296) * 1024 + (n2 - 56320)),
              pos |-> pos + 10]
    ELSE IF n >= 55296 /\ n <= 57343
        THEN [ok |-> TRUE, char |-> Surrogate, pos |-> pos + 4]
    ELSE [ok |-> TRUE, char |-> CharOfCode(n), pos |-> pos + 4]

\* The characters of a string up to its closing quote.  A raw control
\* character is an error, and so is a backslash before anything but
\* " \ / b f n r t u.
RECURSIVE ParseStringBody(_, _, _)
ParseStringBody(text, pos, acc) ==
    IF pos > Len(text) THEN JsonFail
    ELSE IF text[pos] = "\"" THEN JsonRead("string", acc, pos + 1)
    ELSE IF text[pos] = "\\" THEN
        IF pos + 1 > Len(text) THEN JsonFail
        ELSE IF text[pos + 1] \in {"\"", "\\", "/"}
            THEN ParseStringBody(text, pos + 2, Append(acc, text[pos + 1]))
        ELSE IF text[pos + 1] = "n" THEN ParseStringBody(text, pos + 2, Append(acc, "\n"))
        ELSE IF text[pos + 1] = "t" THEN ParseStringBody(text, pos + 2, Append(acc, "\t"))
        ELSE IF text[pos + 1] = "r" THEN ParseStringBody(text, pos + 2, Append(acc, "\r"))
        ELSE IF text[pos + 1] = "b" THEN ParseStringBody(text, pos + 2, Append(acc, "BS"))
        ELSE IF text[pos + 1] = "f" THEN ParseStringBody(text, pos + 2, Append(acc, "FF"))
        ELSE IF text[pos + 1] = "u" /\ UnicodeEscape(text, pos + 2).ok
            THEN ParseStringBody(text, UnicodeEscape(text, pos + 2).pos,
                                 Append(acc, UnicodeEscape(text, pos + 2).char))
        ELSE JsonFail
    ELSE IF IsControl(text[pos]) THEN JsonFail
    ELSE ParseStringBody(text, pos + 1, Append(acc, text[pos]))

RECURSIVE DigitsEnd(_, _)
DigitsEnd(text, pos) ==
    IF pos <= Len(text) /\ IsDigit(text[pos]) THEN DigitsEnd(text, pos + 1) ELSE pos

\* The index after the number that starts at pos, or 0 when none does: an
\* optional minus sign, digits without a leading zero, an optional
\* fraction, an optional exponent.
NumberEnd(text, pos) ==
    LET int == IF JsonAt(text, pos, "-") THEN pos + 1 ELSE pos
        int_end == DigitsEnd(text, int)
        frac_end == IF JsonAt(text, int_end, ".")
                    THEN DigitsEnd(text, int_end + 1) ELSE int_end
        exp == IF /\ frac_end + 1 <= Len(text)
                  /\ text[frac_end + 1] \in {"+", "-"}
               THEN frac_end + 2 ELSE frac_end + 1
        has_exp == frac_end <= Len(text) /\ text[frac_end] \in {"e", "E"}
        exp_end == IF has_exp THEN DigitsEnd(text, exp) ELSE frac_end
    IN
    IF int_end = int THEN 0
    ELSE IF text[int] = "0" /\ int_end > int + 1 THEN 0
    ELSE IF JsonAt(text, int_end, ".") /\ frac_end = int_end + 1 THEN 0
    ELSE IF has_exp /\ exp_end = exp THEN 0
    ELSE exp_end

\* A number, kept as its text.
ParseNumber(text, pos) ==
    IF NumberEnd(text, pos) = 0 THEN JsonFail
    ELSE JsonRead("number", SubSeq(text, pos, NumberEnd(text, pos) - 1),
                  NumberEnd(text, pos))

ParseWord(text, pos, word, kind, v) ==
    IF pos + Len(word) - 1 <= Len(text)
       /\ SubSeq(text, pos, pos + Len(word) - 1) = word
    THEN JsonRead(kind, v, pos + Len(word)) ELSE JsonFail

RECURSIVE ParseValue(_, _)
RECURSIVE ParseItems(_, _, _)
RECURSIVE ParseFields(_, _, _)

\* The items of an array after its opening bracket or after a comma.
ParseItems(text, pos, acc) ==
    LET p == SkipWs(text, pos) IN
    IF acc = <<>> /\ JsonAt(text, p, "]") THEN JsonRead("array", acc, p + 1)
    ELSE
        LET item == ParseValue(text, p)
            q == SkipWs(text, item.pos)
        IN
        IF ~item.ok THEN JsonFail
        ELSE IF JsonAt(text, q, ",") THEN ParseItems(text, q + 1, Append(acc, item.val))
        ELSE IF JsonAt(text, q, "]") THEN JsonRead("array", Append(acc, item.val), q + 1)
        ELSE JsonFail

\* The fields of an object after its opening brace or after a comma.
ParseFields(text, pos, acc) ==
    LET p == SkipWs(text, pos) IN
    IF acc = <<>> /\ JsonAt(text, p, "}") THEN JsonRead("object", acc, p + 1)
    ELSE IF ~JsonAt(text, p, "\"") THEN JsonFail
    ELSE
        LET key == ParseStringBody(text, p + 1, <<>>)
            colon == IF key.ok THEN SkipWs(text, key.pos) ELSE 0
            val == IF key.ok /\ JsonAt(text, colon, ":")
                   THEN ParseValue(text, colon + 1) ELSE JsonFail
            q == SkipWs(text, val.pos)
            field == [key |-> key.val.v, val |-> val.val]
        IN
        IF ~val.ok THEN JsonFail
        ELSE IF JsonAt(text, q, ",") THEN ParseFields(text, q + 1, Append(acc, field))
        ELSE IF JsonAt(text, q, "}") THEN JsonRead("object", Append(acc, field), q + 1)
        ELSE JsonFail

ParseValue(text, pos) ==
    LET p == SkipWs(text, pos) IN
    IF JsonAt(text, p, "\"") THEN ParseStringBody(text, p + 1, <<>>)
    ELSE IF JsonAt(text, p, "[") THEN ParseItems(text, p + 1, <<>>)
    ELSE IF JsonAt(text, p, "{") THEN ParseFields(text, p + 1, <<>>)
    ELSE IF JsonAt(text, p, "t") THEN ParseWord(text, p, K_true, "bool", TRUE)
    ELSE IF JsonAt(text, p, "f") THEN ParseWord(text, p, K_false, "bool", FALSE)
    ELSE IF JsonAt(text, p, "n") THEN ParseWord(text, p, K_null, "null", <<>>)
    ELSE ParseNumber(text, p)

\* The derived Deserialize.  Each conversion returns [ok, val].
Converted(val) == [ok |-> TRUE, val |-> val]
NotConverted == [ok |-> FALSE, val |-> <<>>]

\* String: a string every escape of which names a character.
StringOf(value) ==
    IF /\ value.kind = "string"
       /\ \A i \in 1..Len(value.v) : value.v[i] # Surrogate
    THEN Converted(value.v) ELSE NotConverted

\* The values of the fields of a struct, in the order of its declaration.
\* The struct is read from a map, in which each of its fields occurs once
\* and fields of other names are passed over, or from an array of as many
\* items as it has fields (visit_map and visit_seq of the derive).
FieldsOf(value, keys) ==
    IF value.kind = "array" THEN
        IF Len(value.v) = Len(keys) THEN Converted(value.v) ELSE NotConverted
    ELSE IF /\ value.kind = "object"
            /\ \A i \in 1..Len(value.v) : StringOf([kind |-> "string",
                                                     v |-> value.v[i].key]).ok
            /\ \A k \in 1..Len(keys) :
                    Cardinality({i \in 1..Len(value.v) : value.v[i].key = keys[k]}) = 1
    THEN Converted([k \in 1..Len(keys) |->
                        value.v[CHOOSE i \in 1..Len(value.v) :
                                    value.v[i].key = keys[k]].val])
    ELSE NotConverted

\* u32; the model keeps type parameters below 2^31.  A number with a sign,
\* a fraction or an exponent is no u32.
U32Of(value) ==
    IF value.kind = "number" /\ ParseDigits(value.v, 0, FALSE).ok
    THEN Converted(ParseDigits(value.v, 0, FALSE).val) ELSE NotConverted

\* The externally tagged enum: a map of one entry, the name of the variant
\* and its u32.
DataTypeOf(value) ==
    IF /\ value.kind = "object"
       /\ Len(value.v) = 1
       /\ value.v[1].key \in {K_Int, K_Varchar}
       /\ U32Of(value.v[1].val).ok
    THEN Converted([tag |-> IF value.v[1].key = K_Int THEN "Int" ELSE "Varchar",
                    n |-> U32Of(value.v[1].val).val])
    ELSE NotConverted

\* The struct Column of the values of its fields.
ColumnFrom(fields) ==
    IF /\ fields.ok
       /\ StringOf(fields.val[1]).ok
       /\ DataTypeOf(fields.val[2]).ok
       /\ fields.val[3].kind = "bool"
       /\ fields.val[4].kind = "bool"
    THEN Converted(Column(fields.val[1].v, DataTypeOf(fields.val[2]).val,
                          fields.val[3].v, fields.val[4].v))
    ELSE NotConverted

ColumnOf(value) ==
    ColumnFrom(FieldsOf(value, <<K_name, K_data_type, K_is_primary, K_not_null>>))

\* Vec<String>
RowOf(value) ==
    IF /\ value.kind = "array"
       /\ \A i \in 1..Len(value.v) : StringOf(value.v[i]).ok
    THEN Converted([i \in 1..Len(value.v) |-> value.v[i].v])
    ELSE NotConverted

\* The struct Table of the values of its fields.
TableFrom(fields) ==
    IF /\ fields.ok
       /\ StringOf(fields.val[1]).ok
       /\ fields.val[2].kind = "array"
       /\ \A i \in 1..Len(fields.val[2].v) : ColumnOf(fields.val[2].v[i]).ok
       /\ fields.val[3].kind = "array"
       /\ \A i \in 1..Len(fields.val[3].v) : RowOf(fields.val[3].v[i]).ok
    THEN Converted(Table(fields.val[1].v,
                         [i \in 1..Len(fields.val[2].v) |->
                            ColumnOf(fields.val[2].v[i]).val],
                         [i \in 1..Len(fields.val[3].v) |->
                            RowOf(fields.val[3].v[i]).val]))
    ELSE NotConverted

TableOf(value) == TableFrom(FieldsOf(value, <<K_name, K_columns, K_data>>))

\* The struct Database of the value of its field.
DatabaseFrom(fields) ==
    IF /\ fields.ok
       /\ fields.val[1].kind = "array"
       /\ \A i \in 1..Len(fields.val[1].v) : TableOf(fields.val[1].v[i]).ok
    THEN Converted([i \in 1..Len(fields.val[1].v) |->
                        TableOf(fields.val[1].v[i]).val])
    ELSE NotConverted

\* The document read: one value, nothing but white space after it.
DocumentOf(text, doc) ==
    IF doc.ok /\ SkipWs(text, doc.pos) = Len(text) + 1
    THEN DatabaseFrom(FieldsOf(doc.val, <<K_tables>>))
    ELSE NotConverted

\* serde_json::from_str::<Database> of line 306.
from_str(text) == DocumentOf(text, ParseValue(text, 1))

\* How the file system answers a save: the text is written; or
\* create_dir_all or the opening of the file fails and the file is left as
\* it was; or the file is opened, which empties it, and the write fails
\* after chars whole characters of the text; split tells that the write
\* stopped inside the character that follows them, which a character of
\* more than one byte allows.
Written == [kind |-> "written", chars |-> 0, split |-> FALSE]
Failed == [kind |-> "failed", chars |-> 0, split |-> FALSE]
Partial(chars, split) == [kind |-> "partial", chars |-> chars, split |-> split]

\* What a write that fails leaves of the text: fewer characters than the
\* text has.  The bytes are no UTF-8 when the last character is split.
PartialFile(text, io) ==
    [exists |-> TRUE,
     text |-> SubSeq(text, 1, Min(io.chars, Len(text) - 1)),
     utf8 |-> ~(io.split /\ IsWide(text[Min(io.chars, Len(text) - 1) + 1]))]

\* Lines 287-296: the result and the file data/db.json afterwards.
save(tabs, f, io) ==
    IF io.kind = "written"
    THEN [res |-> Ok(0),
          file |-> [exists |-> TRUE, text |-> to_string_pretty(tabs), utf8 |-> TRUE]]
    ELSE IF io.kind = "partial"
    THEN [res |-> Err("io"), file |-> PartialFile(to_string_pretty(tabs), io)]
    ELSE [res |-> Err("io"), file |-> f]

\* Lines 298-307: the database read and the result.  A missing file gives
\* an empty database; read_to_string fails when the file cannot be read or
\* does not hold UTF-8.
load(f, read_ok) ==
    IF ~f.exists THEN [res |-> Ok(0), tables |-> <<>>]
    ELSE IF ~read_ok \/ ~f.utf8 THEN [res |-> Err("io"), tables |-> <<>>]
    ELSE IF from_str(f.text).ok THEN [res |-> Ok(0), tables |-> from_str(f.text).val]
    ELSE [res |-> Err("json"), tables |-> <<>>]

(***************************************************************************)
(* execute_sql (lib.rs 52-221).  parse_sql is built on the sqlparser       *)
(* crate; the input is therefore given as it stands after line 73 and      *)
(* after parse_sql: either the word HISTORY, or the sequence of the        *)
(* segments between the semicolons, each one blank, a syntax error, or     *)
(* the SqlAst of a statement.                                              *)
(***************************************************************************)
\* format_table_from_db (format.rs 63-92) returns an error.
FormatFails(tabs, table_name, columns, rows) ==
    LET t == FindTable(tabs, table_name) IN
    \/ t = 0
    \/ /\ columns # <<Star>>
       /\ \E i \in 1..Len(columns) : PositionOfColumn(tabs[t].columns, columns[i]) = 0
    \/ /\ rows # <<>>
       /\ Len(rows[1]) # (IF columns = <<Star>> THEN Len(tabs[t].columns)
                          ELSE Len(columns))

\* Lines 88-108: a SELECT fails when select does, or when its rows cannot
\* be laid out.
SelectResult(tabs, st, out) ==
    IF /\ out.res.ok
       /\ out.rows # <<>>
       /\ FormatFails(tabs, st.table, st.columns, out.rows)
    THEN Err("Format") ELSE out.res

\* One turn of the loop of line 80: the tables after the statement and its
\* result; an error result is what sets has_error.  The SELECT of an
\* arithmetic expression (SqlAst::Calculate) prints its value and changes
\* nothing; a segment parse_sql refuses is a syntax error.
RunStatement(tabs, st, overflow_checks) ==
    IF st.kind = "create_table" THEN create_table(tabs, st.name, st.columns)
    ELSE IF st.kind = "insert" THEN insert(tabs, st.table, st.col_list, st.values)
    ELSE IF st.kind = "update"
        THEN update(tabs, st.table, st.set, st.cond, overflow_checks)
    ELSE IF st.kind = "delete" THEN delete(tabs, st.table, st.cond, overflow_checks)
    ELSE IF st.kind = "drop" THEN drop_tables(tabs, st.table_names, st.if_exists)
    ELSE IF st.kind = "select" THEN
        [tables |-> tabs,
         res |-> SelectResult(tabs, st,
                    select(tabs, st.table, st.columns, st.cond,
                           [some |-> TRUE, cols |-> st.order_by], overflow_checks))]
    ELSE IF st.kind = "calculate" THEN [tables |-> tabs, res |-> Ok(0)]
    ELSE [tables |-> tabs, res |-> Err("SyntaxError")]

\* The loop of lines 80-204 from statement k on; a panic of a statement
\* ends it.  AfterStatement goes on from the outcome of statement k.
RECURSIVE RunStatements(_, _, _, _, _)
AfterStatement(out, tabs, statements, k, has_error, overflow_checks) ==
    IF out.res.err = "panic"
    THEN [tables |-> tabs, has_error |-> has_error, panicked |-> TRUE]
    ELSE RunStatements(out.tables, statements, k + 1,
                       has_error \/ ~out.res.ok, overflow_checks)

RunStatements(tabs, statements, k, has_error, overflow_checks) ==
    IF k > Len(statements)
    THEN [tables |-> tabs, has_error |-> has_error, panicked |-> FALSE]
    ELSE AfterStatement(RunStatement(tabs, statements[k], overflow_checks),
                        tabs, statements, k, has_error, overflow_checks)

\* Lines 64-67: the database of the file, or a new one when it cannot be
\* loaded.
LoadedOrNew(loaded) == IF loaded.res.ok THEN loaded.tables ELSE <<>>

\* Lines 214-220: the value returned and the file, given what db.save()
\* answered.
ReturnAfterSave(has_error, saved) ==
    IF ~saved.res.ok THEN [ret |-> "false", file |-> saved.file]
    ELSE [ret |-> IF has_error THEN "false" ELSE "true", file |-> saved.file]

\* What follows the loop; a call that panicked has saved nothing.
AfterStatements(run, f, io) ==
    IF run.panicked THEN [ret |-> "panic", file |-> f]
    ELSE ReturnAfterSave(run.has_error, save(run.tables, f, io))

\* The value returned ("true", "false", or "panic" when the call does not
\* return) and the file afterwards.  The database passed by the caller is
\* shadowed at line 64 and takes no part.
execute_sql(input, f, io, read_ok, overflow_checks) ==
    IF input.history_word THEN [ret |-> "false", file |-> f]
    ELSE AfterStatements(
            RunStatements(LoadedOrNew(load(f, read_ok)),
                          SelectSeq(input.segments, LAMBDA st : st.kind # "blank"),
                          1, FALSE, overflow_checks),
            f, io)

(***************************************************************************)
(* Bounds and inputs                                                       *)
(***************************************************************************)
\* The most rows a table is grown to.
MaxRows == 2

N_t == <<"t">>
N_u == <<"u">>

C_a == <<"a">>
C_b == <<"b">>
C_zz == <<"z","z">>

\* users(id INT PRIMARY KEY NOT NULL, name VARCHAR) of the examples, with
\* short names and a short VARCHAR.
SchemaP == <<Column(C_a, DataTypeInt(10), TRUE, TRUE),
             Column(C_b, DataTypeVarchar(2), FALSE, FALSE)>>
\* A primary column declared without NOT NULL, and a NOT NULL column.
SchemaQ == <<Column(C_a, DataTypeVarchar(2), TRUE, FALSE),
             Column(C_b, DataTypeInt(10), FALSE, TRUE)>>
Schemas == {SchemaP, SchemaQ}

V_1 == <<"1">>
V_2 == <<"2">>
V_3 == <<"3">>
V_Null == <<"N","u","l","l">>
V_space == <<" ">>
V_abc == <<"a","b","c">>
V_q1 == <<"'","1","'">>

\* Values offered for the primary column a and for column b: integers, the
\* token NULL, whitespace, and a value that is no integer and longer than
\* the VARCHAR.
KeyVals == {V_1, V_2, V_Null, V_space}
CellVals == {V_1, V_Null, V_space, V_abc}

NoList == [some |-> FALSE]
SomeList(names) == [some |-> TRUE, names |-> names]

InsertCall(table_name, col_list, values) ==
    [table |-> table_name, col_list |-> col_list, values |-> values]

\* Single-row inserts: full rows, a row that is too short, rows under a
\* column list (in and out of schema order, with an unlisted primary
\* column, with an unknown column, with too many values), and an unknown table.
InsertCalls ==
    {InsertCall(N_t, NoList, <<(<<x, y>>)>>) : x \in KeyVals, y \in CellVals}
    \cup {InsertCall(N_t, NoList, <<(<<V_1>>)>>)}
    \cup {InsertCall(N_t, SomeList(<<C_a>>), <<(<<x>>)>>) : x \in KeyVals}
    \cup {InsertCall(N_t, SomeList(<<C_b, C_a>>), <<(<<y, x>>)>>) :
            x \in {V_1, V_2}, y \in {V_1, V_Null}}
    \cup {InsertCall(N_t, SomeList(<<C_b>>), <<(<<V_1>>)>>),
          InsertCall(N_t, SomeList(<<C_a, C_zz>>), <<(<<V_1, V_1>>)>>),
          InsertCall(N_t, SomeList(<<C_a>>), <<(<<V_1, V_1>>)>>),
          InsertCall(N_t, SomeList(<<C_a, C_a>>), <<(<<V_1, V_2>>)>>),
          InsertCall(N_u, NoList, <<(<<V_1, V_1>>)>>)}

\* Two-row inserts: each row may be valid, repeat a key, hold NULL in the
\* primary column or be too short.
BatchRows == {<<V_1, V_Null>>, <<V_2, V_1>>, <<V_Null, V_1>>, <<V_1>>}
ListedRows == {<<V_1, V_1>>, <<V_Null, V_2>>, <<V_1>>}
BatchCalls ==
    {InsertCall(N_t, NoList, <<r1, r2>>) : r1 \in BatchRows, r2 \in BatchRows}
    \cup {InsertCall(N_t, SomeList(<<C_b, C_a>>), <<r1, r2>>) :
            r1 \in ListedRows, r2 \in ListedRows}

Assign(col, val) == [col |-> col, val |-> val]
\* New values: a quoted key that may be held already, a fresh key, the
\* token NULL, whitespace, and a value of the wrong type and length.
SetLists ==
    {<<Assign(C_a, v)>> : v \in {V_q1, V_3, V_Null, V_space, V_abc}}
    \cup {<<Assign(C_b, v)>> : v \in {V_1, V_Null, V_abc}}
    \cup {<<Assign(C_zz, V_3)>>,
          <<Assign(C_zz, V_3), Assign(C_b, V_1)>>,
          <<Assign(C_b, V_1), Assign(C_a, V_abc)>>,
          <<Assign(C_b, V_1), Assign(C_a, V_3)>>,
          <<Assign(C_a, V_3), Assign(C_b, V_abc)>>}

NoCond == [some |-> FALSE]
SomeCond(text) == [some |-> TRUE, text |-> text]
K_a_eq_1 == <<"a"," ","="," ","1">>
K_a_gt_1 == <<"a"," ",">"," ","1">>
K_zz_eq_1 == <<"z","z"," ","="," ","1">>
Conds == {NoCond, SomeCond(K_a_eq_1), SomeCond(K_a_gt_1), SomeCond(K_zz_eq_1)}

UpdateCall(table_name, set, cond) == [table |-> table_name, set |-> set, cond |-> cond]
UpdateCalls ==
    {UpdateCall(N_t, set, cond) : set \in SetLists, cond \in Conds}
    \cup {UpdateCall(N_u, <<Assign(C_a, V_3)>>, NoCond)}

DeleteCall(table_name, cond) == [table |-> table_name, cond |-> cond]
DeleteCalls == {DeleteCall(N_t, cond) : cond \in Conds} \cup {DeleteCall(N_u, NoCond)}

DropLists == {<<N_t>>, <<N_u>>, <<N_t, N_u>>}

(***************************************************************************)
(* The state machine.  The session makes one engine call at a time: a call *)
(* is made when no result is pending (last = Idle), it leaves its          *)
(* arguments and result in last, and Return hands the result back.  A      *)
(* panic ends the process: nothing is enabled after it.                    *)
(***************************************************************************)
Idle == [op |-> "idle", res |-> Ok(0)]

\* No snapshot has been written, and no command history is kept.
NoFile == [exists |-> FALSE, text |-> <<>>, utf8 |-> TRUE]
NoHistory == [commands |-> <<>>, max_size |-> 0, current_index |-> 0]

Init ==
    /\ tables = <<>>
    /\ last = Idle
    /\ file = NoFile
    /\ history = NoHistory

RowsOf(tabs, table_name) ==
    IF FindTable(tabs, table_name) = 0 THEN <<>>
    ELSE tabs[FindTable(tabs, table_name)].data

CreateTable ==
    \E columns \in Schemas :
        /\ last = Idle
        /\ LET out == create_table(tables, N_t, columns) IN
            /\ tables' = out.tables
            /\ UNCHANGED <<file, history>>
            /\ last' = [op |-> "create_table", name |-> N_t,
                        columns |-> columns, res |-> out.res]

InsertWith(c) ==
    /\ last = Idle
    /\ Len(RowsOf(tables, c.table)) + Len(c.values) <= MaxRows
    /\ LET out == insert(tables, c.table, c.col_list, c.values) IN
        /\ tables' = out.tables
        /\ UNCHANGED <<file, history>>
        /\ last' = [op |-> "insert", table |-> c.table, col_list |-> c.col_list,
                    values |-> c.values, res |-> out.res]

Insert == \E c \in InsertCalls : InsertWith(c)

InsertBatch == \E c \in BatchCalls : InsertWith(c)

Update ==
    \E c \in UpdateCalls, overflow_checks \in BOOLEAN :
        /\ last = Idle
        /\ LET out == update(tables, c.table, c.set, c.cond, overflow_checks) IN
            /\ tables' = out.tables
            /\ UNCHANGED <<file, history>>
            /\ last' = [op |-> "update", table |-> c.table, set |-> c.set,
                        cond |-> c.cond, res |-> out.res]

Delete ==
    \E c \in DeleteCalls, overflow_checks \in BOOLEAN :
        /\ last = Idle
        /\ LET out == delete(tables, c.table, c.cond, overflow_checks) IN
            /\ tables' = out.tables
            /\ UNCHANGED <<file, history>>
            /\ last' = [op |-> "delete", table |-> c.table,
                        cond |-> c.cond, res |-> out.res]

Drop ==
    \E table_names \in DropLists, if_exists \in BOOLEAN :
        /\ last = Idle
        /\ LET out == drop_tables(tables, table_names, if_exists) IN
            /\ tables' = out.tables
            /\ UNCHANGED <<file, history>>
            /\ last' = [op |-> "drop", table_names |-> table_names,
                        if_exists |-> if_exists, res |-> out.res]

Return ==
    /\ last # Idle
    /\ last.res.err # "panic"
    /\ last' = Idle
    /\ UNCHANGED <<tables, file, history>>

Next == CreateTable \/ Insert \/ InsertBatch \/ Update \/ Delete \/ Drop \/ Return

Spec == Init /\ [][Next]_vars

(***************************************************************************)
(* The table list on its own: create_table and drop_tables called with     *)
(* names that differ in letter case and in surrounding whitespace.         *)
(***************************************************************************)
\* The most tables the list is grown to.
MaxTables == 3

N_T == <<"T">>
N_st == <<" ", "t">>
TableNames == {N_t, N_T, N_st, N_u}

NamedDropLists ==
    {<<>>, <<N_t>>, <<N_T>>, <<N_u>>, <<N_st>>, <<N_t, N_u>>, <<N_u, N_st>>}

CreateNamed ==
    \E name \in TableNames, columns \in Schemas :
        /\ last = Idle
        /\ Len(tables) < MaxTables
        /\ LET out == create_table(tables, name, columns) IN
            /\ tables' = out.tables
            /\ UNCHANGED <<file, history>>
            /\ last' = [op |-> "create_table", name |-> name,
                        columns |-> columns, res |-> out.res]

DropNamed ==
    \E table_names \in NamedDropLists, if_exists \in BOOLEAN :
        /\ last = Idle
        /\ LET out == drop_tables(tables, table_names, if_exists) IN
            /\ tables' = out.tables
            /\ UNCHANGED <<file, history>>
            /\ last' = [op |-> "drop", table_names |-> table_names,
                        if_exists |-> if_exists, res |-> out.res]

NextTables == CreateNamed \/ DropNamed \/ Return

SpecTables == Init /\ [][NextTables]_vars

(***************************************************************************)
(* Queries: a table t(id, a, b) is filled with rows that repeat values of  *)
(* a and b, hold 9 and 10 in the Int column a and NULL in it, and is read   *)
(* with select under projections, conditions and sort keys.                *)
(***************************************************************************)
\* The most rows the queried table is grown to.
MaxSortRows == 3

C_id == <<"i", "d">>
SchemaS == <<Column(C_id, DataTypeInt(10), TRUE, TRUE),
             Column(C_a, DataTypeInt(10), FALSE, FALSE),
             Column(C_b, DataTypeVarchar(2), FALSE, FALSE)>>

V_4 == <<"4">>
V_5 == <<"5">>
V_9 == <<"9">>
V_10 == <<"1", "0">>
V_b == <<"b">>
V_ab == <<"a", "b">>
V_B == <<"B">>
\* The id given to the n-th row.
IdStrings == <<V_1, V_2, V_3, V_4, V_5>>
\* The cells (a, b) of a row.
SortCells == {<<V_9, V_b>>, <<V_9, V_ab>>, <<V_10, V_b>>, <<V_10, V_ab>>,
              <<V_Null, V_B>>}

K_a_eq_9 == <<"a", " ", "=", " ", "9">>
K_a_eq_7 == <<"a", " ", "=", " ", "7">>

NoOrder == [some |-> FALSE]
OrderBy(cols) == [some |-> TRUE, cols |-> cols]
Key(col, desc) == [col |-> col, desc |-> desc]

SelectCall(table_name, columns, cond, order_by) ==
    [table |-> table_name, columns |-> columns, cond |-> cond, order_by |-> order_by]

\* The sort keys offered: one key and two keys, ascending and descending
\* in either position, and keys that name no column.
OrderBys ==
    {NoOrder,
     OrderBy(<<Key(C_a, FALSE)>>), OrderBy(<<Key(C_a, TRUE)>>),
     OrderBy(<<Key(C_b, FALSE)>>), OrderBy(<<Key(C_b, TRUE)>>),
     OrderBy(<<Key(C_a, FALSE), Key(C_b, TRUE)>>),
     OrderBy(<<Key(C_a, TRUE), Key(C_b, FALSE)>>),
     OrderBy(<<Key(C_b, TRUE), Key(C_a, FALSE)>>),
     OrderBy(<<Key(C_zz, FALSE)>>),
     OrderBy(<<Key(C_a, FALSE), Key(C_zz, TRUE)>>)}

\* Whole rows under every condition and order; a projection out of schema
\* order; a projected column the table does not have; a missing table.
SelectCalls ==
    {SelectCall(N_t, <<Star>>, cond, order_by) :
        cond \in {NoCond, SomeCond(K_a_eq_9), SomeCond(K_a_eq_7)},
        order_by \in OrderBys}
    \cup {SelectCall(N_t, <<C_b, C_id>>, cond, order_by) :
        cond \in {NoCond, SomeCond(K_a_eq_9)},
        order_by \in {NoOrder, OrderBy(<<Key(C_a, FALSE)>>),
                      OrderBy(<<Key(C_b, TRUE)>>)}}
    \cup {SelectCall(N_t, <<C_zz>>, cond, order_by) :
        cond \in {NoCond, SomeCond(K_a_eq_7)},
        order_by \in {NoOrder, OrderBy(<<Key(C_zz, FALSE)>>)}}
    \cup {SelectCall(N_u, <<Star>>, NoCond, NoOrder)}

CreateQueried ==
    /\ last = Idle
    /\ LET out == create_table(tables, N_t, SchemaS) IN
        /\ tables' = out.tables
        /\ UNCHANGED <<file, history>>
        /\ last' = [op |-> "create_table", name |-> N_t,
                    columns |-> SchemaS, res |-> out.res]

InsertQueried ==
    \E cells \in SortCells :
        /\ last = Idle
        /\ Len(RowsOf(tables, N_t)) < MaxSortRows
        /\ LET values == <<(<<IdStrings[Len(RowsOf(tables, N_t)) + 1]>> \o cells)>>
               out == insert(tables, N_t, NoList, values)
           IN
            /\ tables' = out.tables
            /\ UNCHANGED <<file, history>>
            /\ last' = [op |-> "insert", table |-> N_t, col_list |-> NoList,
                        values |-> values, res |-> out.res]

Select ==
    \E c \in SelectCalls, overflow_checks \in BOOLEAN :
        /\ last = Idle
        /\ LET out == select(tables, c.table, c.columns, c.cond, c.order_by,
                             overflow_checks) IN
            /\ last' = [op |-> "select", table |-> c.table, columns |-> c.columns,
                        cond |-> c.cond, order_by |-> c.order_by,
                        res |-> out.res, rows |-> out.rows,
                        has_data |-> out.has_data]
            /\ UNCHANGED <<tables, file, history>>

NextSelect == CreateQueried \/ InsertQueried \/ Select \/ Return

SpecSelect == Init /\ [][NextSelect]_vars

(***************************************************************************)
(* Conditions: a table t(a, b, c) holds rows that tell the comparisons of  *)
(* the conditions apart, NULL cells, a whitespace cell and cells stored    *)
(* with their double quotes, and is read with select under conditions that *)
(* combine comparisons, spell the keywords in lower case and quote their   *)
(* literals.                                                               *)
(***************************************************************************)
\* The most rows the table read under the conditions is grown to.
MaxWhereRows == 1

C_c == <<"c">>
SchemaW == <<Column(C_a, DataTypeInt(10), FALSE, FALSE),
             Column(C_b, DataTypeVarchar(8), FALSE, FALSE),
             Column(C_c, DataTypeInt(10), FALSE, FALSE)>>

V_xy == <<"x", " ", "y">>
V_Xy == <<"X", " ", "y">>
V_x == <<"x">>
V_x_or_y == <<"x", " ", "O", "R", " ", "y">>
V_x_and_y == <<"x", " ", "A", "N", "D", " ", "y">>
V_x_paren == <<"x", ")">>
V_it_s == <<"i", "t", "\"", "s">>
\* Cells stored with their double quotes.
V_dq_x == <<"\"", "x", "\"">>
V_dq_2 == <<"\"", "2", "\"">>

WhereRows ==
    {<<a, b, c>> : a \in {V_1, V_2}, b \in {V_2, V_xy}, c \in {V_3, V_4}}
    \cup {<<V_Null, V_Null, V_3>>, <<V_1, V_space, V_3>>, <<V_1, V_dq_x, V_4>>,
          <<V_2, V_dq_2, V_3>>, <<V_1, V_Xy, V_3>>, <<V_2, V_x_or_y, V_4>>,
          <<V_1, V_x, V_3>>, <<V_1, V_x_and_y, V_3>>, <<V_2, V_x_paren, V_4>>,
          <<V_1, V_it_s, V_3>>}

\* a = 1 AND b = 2
W_and ==
    <<"a", " ", "=", " ", "1", " ", "A", "N", "D", " ", "b", " ", "=", " ",
          "2">>
\* a = 1 OR b = 2
W_or ==
    <<"a", " ", "=", " ", "1", " ", "O", "R", " ", "b", " ", "=", " ", "2">>
\* (a = 1 OR b = 2) AND c = 3
W_paren_and ==
    <<"(", "a", " ", "=", " ", "1", " ", "O", "R", " ", "b", " ", "=", " ",
          "2", ")", " ", "A", "N", "D", " ", "c", " ", "=", " ", "3">>
\* a = 1 OR b = 2 AND c = 3
W_or_and ==
    <<"a", " ", "=", " ", "1", " ", "O", "R", " ", "b", " ", "=", " ", "2",
          " ", "A", "N", "D", " ", "c", " ", "=", " ", "3">>
\* a = 1 AND b = 2 OR c = 3
W_and_or ==
    <<"a", " ", "=", " ", "1", " ", "A", "N", "D", " ", "b", " ", "=", " ",
          "2", " ", "O", "R", " ", "c", " ", "=", " ", "3">>
\* a = 1 and b = 2
W_and_lower ==
    <<"a", " ", "=", " ", "1", " ", "a", "n", "d", " ", "b", " ", "=", " ",
          "2">>
\* (a = 1) OR b = 2
W_paren_or ==
    <<"(", "a", " ", "=", " ", "1", ")", " ", "O", "R", " ", "b", " ", "=",
          " ", "2">>
\* (a = 1) or b = 2
W_paren_or_lower ==
    <<"(", "a", " ", "=", " ", "1", ")", " ", "o", "r", " ", "b", " ", "=",
          " ", "2">>
\* b IS NULL
W_b_is_null ==
    <<"b", " ", "I", "S", " ", "N", "U", "L", "L">>
\* b is null
W_b_is_null_lower ==
    <<"b", " ", "i", "s", " ", "n", "u", "l", "l">>
\* b IS NOT NULL
W_b_is_not_null ==
    <<"b", " ", "I", "S", " ", "N", "O", "T", " ", "N", "U", "L", "L">>
\* a IS NULL
W_a_is_null ==
    <<"a", " ", "I", "S", " ", "N", "U", "L", "L">>
\* b = 'x y'
W_b_eq_xy ==
    <<"b", " ", "=", " ", "'", "x", " ", "y", "'">>
\* b = 'x OR y'
W_b_eq_x_or_y ==
    <<"b", " ", "=", " ", "'", "x", " ", "O", "R", " ", "y", "'">>
\* (b = 'x y') AND a = 1
W_paren_xy_and ==
    <<"(", "b", " ", "=", " ", "'", "x", " ", "y", "'", ")", " ", "A", "N",
          "D", " ", "a", " ", "=", " ", "1">>
\* b = "x y"
W_b_eq_dq_xy ==
    <<"b", " ", "=", " ", "\"", "x", " ", "y", "\"">>
\* b = 'x AND y'
W_b_eq_x_and_y ==
    <<"b", " ", "=", " ", "'", "x", " ", "A", "N", "D", " ", "y", "'">>
\* b = 'x)'
W_b_eq_x_paren ==
    <<"b", " ", "=", " ", "'", "x", ")", "'">>
\* b = 'it"s'
W_b_eq_it_s ==
    <<"b", " ", "=", " ", "'", "i", "t", "\"", "s", "'">>
\* a = '1'
W_a_eq_q1 ==
    <<"a", " ", "=", " ", "'", "1", "'">>
\* a < 1
W_a_lt_1 ==
    <<"a", " ", "<", " ", "1">>
\* b = x
W_b_eq_x ==
    <<"b", " ", "=", " ", "x">>
\* b > 1
W_b_gt_1 ==
    <<"b", " ", ">", " ", "1">>

\* Conditions with parentheses that do not match, and the empty condition.
\* a = 1) AND b = 2
W_close_only ==
    <<"a", " ", "=", " ", "1", ")", " ", "A", "N", "D", " ", "b", " ", "=",
      " ", "2">>
\* (a = 1
W_open_only ==
    <<"(", "a", " ", "=", " ", "1">>
\* (b = ' )
W_quote_paren ==
    <<"(", "b", " ", "=", " ", "'", " ", ")">>
W_empty == <<>>

WhereConds ==
    {W_close_only, W_open_only, W_quote_paren, W_empty,
     W_and, W_or, W_paren_and, W_or_and, W_and_or, W_and_lower, W_paren_or,
     W_paren_or_lower, W_b_is_null, W_b_is_null_lower, W_b_is_not_null,
     W_a_is_null, W_b_eq_xy, W_b_eq_x_or_y, W_paren_xy_and, W_a_eq_q1,
     W_a_lt_1, W_b_eq_x, W_b_gt_1, K_a_eq_1, K_a_gt_1,
     W_b_eq_dq_xy, W_b_eq_x_and_y, W_b_eq_x_paren, W_b_eq_it_s}

CreateFiltered ==
    /\ last = Idle
    /\ LET out == create_table(tables, N_t, SchemaW) IN
        /\ tables' = out.tables
        /\ UNCHANGED <<file, history>>
        /\ last' = [op |-> "create_table", name |-> N_t,
                    columns |-> SchemaW, res |-> out.res]

InsertFiltered ==
    \E row \in WhereRows :
        /\ last = Idle
        /\ Len(RowsOf(tables, N_t)) < MaxWhereRows
        /\ LET out == insert(tables, N_t, NoList, <<row>>) IN
            /\ tables' = out.tables
            /\ UNCHANGED <<file, history>>
            /\ last' = [op |-> "insert", table |-> N_t, col_list |-> NoList,
                        values |-> <<row>>, res |-> out.res]

SelectWhere ==
    \E text \in WhereConds, overflow_checks \in BOOLEAN :
        /\ last = Idle
        /\ LET out == select(tables, N_t, <<Star>>, SomeCond(text), NoOrder,
                             overflow_checks) IN
            /\ last' = [op |-> "select", table |-> N_t, columns |-> <<Star>>,
                        cond |-> SomeCond(text), order_by |-> NoOrder,
                        res |-> out.res, rows |-> out.rows,
                        has_data |-> out.has_data]
            /\ UNCHANGED <<tables, file, history>>

NextWhere == CreateFiltered \/ InsertFiltered \/ SelectWhere \/ Return

SpecWhere == Init /\ [][NextWhere]_vars

(***************************************************************************)
(* NULL in an Int column: the table users(id, name, age) of where_test.rs  *)
(* without the name, t(a INT PRIMARY KEY NOT NULL, b INT), is filled and   *)
(* updated.                                                                *)
(***************************************************************************)
SchemaR == <<Column(C_a, DataTypeInt(10), TRUE, TRUE),
             Column(C_b, DataTypeInt(10), FALSE, FALSE)>>

CreateNullable ==
    /\ last = Idle
    /\ LET out == create_table(tables, N_t, SchemaR) IN
        /\ tables' = out.tables
        /\ UNCHANGED <<file, history>>
        /\ last' = [op |-> "create_table", name |-> N_t,
                    columns |-> SchemaR, res |-> out.res]

InsertNullable ==
    \E a \in {V_1, V_2, V_3}, b \in {V_1, V_2, V_Null} :
        /\ last = Idle
        /\ Len(RowsOf(tables, N_t)) < MaxRows
        /\ LET out == insert(tables, N_t, NoList, <<(<<a, b>>)>>) IN
            /\ tables' = out.tables
            /\ UNCHANGED <<file, history>>
            /\ last' = [op |-> "insert", table |-> N_t, col_list |-> NoList,
                        values |-> <<(<<a, b>>)>>, res |-> out.res]

UpdateNullable ==
    \E set \in {<<Assign(C_b, v)>> : v \in {V_1, V_3, V_Null, V_abc}},
       cond \in {NoCond, SomeCond(K_a_eq_1), SomeCond(K_a_gt_1)},
       overflow_checks \in BOOLEAN :
        /\ last = Idle
        /\ LET out == update(tables, N_t, set, cond, overflow_checks) IN
            /\ tables' = out.tables
            /\ UNCHANGED <<file, history>>
            /\ last' = [op |-> "update", table |-> N_t, set |-> set,
                        cond |-> cond, res |-> out.res]

NextNullable == CreateNullable \/ InsertNullable \/ UpdateNullable \/ Return

SpecNullable == Init /\ [][NextNullable]_vars

(***************************************************************************)
(* Two tables: t and u are created in either order, filled, updated,       *)
(* emptied and read; the calls also name a table v that is never created.  *)
(***************************************************************************)
\* The most rows each of the two tables is grown to.
MaxFrameRows == 1

N_v == <<"v">>
FrameNames == {N_t, N_u, N_v}
FrameRows == {<<V_1, V_1>>, <<V_2, V_1>>}
FrameConds == {NoCond, SomeCond(K_a_eq_1)}

CreateFramed ==
    \E name \in {N_t, N_u} :
        /\ last = Idle
        /\ \E out \in {create_table(tables, name, SchemaP)} :
            /\ tables' = out.tables
            /\ UNCHANGED <<file, history>>
            /\ last' = [op |-> "create_table", name |-> name,
                        columns |-> SchemaP, res |-> out.res]

InsertFramed ==
    \E name \in FrameNames, row \in FrameRows :
        /\ last = Idle
        /\ Len(RowsOf(tables, name)) < MaxFrameRows
        /\ \E out \in {insert(tables, name, NoList, <<row>>)} :
            /\ tables' = out.tables
            /\ UNCHANGED <<file, history>>
            /\ last' = [op |-> "insert", table |-> name, col_list |-> NoList,
                        values |-> <<row>>, res |-> out.res]

UpdateFramed ==
    \E name \in FrameNames, cond \in FrameConds, overflow_checks \in BOOLEAN :
        /\ last = Idle
        /\ \E set \in {<<Assign(C_b, V_2)>>} :
           \E out \in {update(tables, name, set, cond, overflow_checks)} :
            /\ tables' = out.tables
            /\ UNCHANGED <<file, history>>
            /\ last' = [op |-> "update", table |-> name, set |-> set,
                        cond |-> cond, res |-> out.res]

DeleteFramed ==
    \E name \in FrameNames, cond \in FrameConds, overflow_checks \in BOOLEAN :
        /\ last = Idle
        /\ \E out \in {delete(tables, name, cond, overflow_checks)} :
            /\ tables' = out.tables
            /\ UNCHANGED <<file, history>>
            /\ last' = [op |-> "delete", table |-> name,
                        cond |-> cond, res |-> out.res]

SelectFramed ==
    \E name \in FrameNames, cond \in FrameConds \cup {SomeCond(K_zz_eq_1)},
       overflow_checks \in BOOLEAN :
        /\ last = Idle
        /\ \E out \in {select(tables, name, <<Star>>, cond, NoOrder,
                              overflow_checks)} :
            /\ last' = [op |-> "select", table |-> name, columns |-> <<Star>>,
                        cond |-> cond, order_by |-> NoOrder,
                        res |-> out.res, rows |-> out.rows,
                        has_data |-> out.has_data]
            /\ UNCHANGED <<tables, file, history>>

NextFrame ==
    CreateFramed \/ InsertFramed \/ UpdateFramed \/ DeleteFramed
    \/ SelectFramed \/ Return

SpecFrame == Init /\ [][NextFrame]_vars

(***************************************************************************)
(* A command history of every capacity up to MaxHistory is given commands  *)
(* that are stored, commands that are skipped and repeated commands, and   *)
(* is walked with get_previous and get_next.  The methods are called one   *)
(* after the other; last keeps the latest call and what it returned.       *)
(***************************************************************************)
\* The largest max_size a history is created with.
MaxHistory == 3

H_a == <<"a">>
H_a_semi == <<"a", ";">>
H_a_spaces == <<" ", "a", " ">>
H_b == <<"b">>
H_c == <<"c">>
H_d == <<"d">>
H_exit == <<"e", "x", "i", "t">>
H_history == <<"h", "i", "s", "t", "o", "r", "y">>
H_bang_bang == <<"!", "!">>
H_bang_1 == <<"!", "1">>
H_blank == <<" ">>
HistoryCommands ==
    {H_a, H_a_semi, H_a_spaces, H_b, H_c, H_d, H_exit, H_history,
     H_bang_bang, H_bang_1, H_blank}

InitHistory ==
    /\ tables = <<>>
    /\ last = Idle
    /\ file = NoFile
    /\ history \in {CommandHistory_new(n) : n \in 0..MaxHistory}

Add ==
    \E command \in HistoryCommands :
        /\ history' = add(history, command)
        /\ last' = [op |-> "add", command |-> command,
                    len_before |-> CommandHistory_len(history),
                    res |-> Ok(0), ret |-> NoneStr]
        /\ UNCHANGED <<tables, file>>

GetPrevious ==
    /\ history' = get_previous(history).history
    /\ last' = [op |-> "get_previous", res |-> Ok(0),
                ret |-> get_previous(history).ret]
    /\ UNCHANGED <<tables, file>>

GetNext ==
    /\ history' = get_next(history).history
    /\ last' = [op |-> "get_next", res |-> Ok(0), ret |-> get_next(history).ret]
    /\ UNCHANGED <<tables, file>>

ResetIndex ==
    /\ history' = reset_index(history)
    /\ last' = [op |-> "reset_index", res |-> Ok(0), ret |-> NoneStr]
    /\ UNCHANGED <<tables, file>>

Clear ==
    /\ history' = clear(history)
    /\ last' = [op |-> "clear", res |-> Ok(0), ret |-> NoneStr]
    /\ UNCHANGED <<tables, file>>

NextHistory == Add \/ GetPrevious \/ GetNext \/ ResetIndex \/ Clear

SpecHistory == InitHistory /\ [][NextHistory]_vars

(***************************************************************************)
(* Saving and loading: tables are created and filled, among others with    *)
(* names and cells that hold quotes, backslashes and a no-break space;     *)
(* save and load are called at any moment; a save is answered by a write   *)
(* that succeeds, that does not begin, or that stops part-way.  last keeps *)
(* the latest call; load leaves the database it returns in last.loaded.    *)
(***************************************************************************)
\* The most rows the saved table is given.
MaxSavedRows == 2

N_quoted == <<"q", "\"", "\\">>
C_quoted == <<"n", "\"", "m">>
SchemaJ == <<Column(C_a, DataTypeInt(32), TRUE, TRUE),
             Column(C_quoted, DataTypeVarchar(100), FALSE, FALSE)>>
V_quote_backslash == <<"x", "\"", "\\", "y">>
V_nbsp == <<NBSP>>
SavedCells == {V_Null, V_quote_backslash, V_nbsp}
\* The sizes a write that fails is stopped at: nothing written, ten
\* characters written.
FailedWriteSizes == {0, 10}

\* The index of the first character of more than one byte, or 0.
FirstWide(text) ==
    LET wide == {i \in 1..Len(text) : IsWide(text[i])} IN
    IF wide = {} THEN 0 ELSE CHOOSE i \in wide : \A j \in wide : i <= j

\* The answers of the file system offered to a save of the text: the write
\* succeeds, nothing is written, or the write fails at one of the sizes or
\* inside the first character of more than one byte.
FileAnswers(text) ==
    {Written, Failed}
    \cup {Partial(n, FALSE) : n \in FailedWriteSizes}
    \cup (IF FirstWide(text) = 0 THEN {}
          ELSE {Partial(FirstWide(text) - 1, TRUE)})

CreateSaved ==
    \E name \in {N_t, N_quoted} :
        LET out == create_table(tables, name, SchemaJ) IN
        /\ tables' = out.tables
        /\ last' = [op |-> "create_table", name |-> name,
                    columns |-> SchemaJ, res |-> out.res]
        /\ UNCHANGED <<file, history>>

InsertSaved ==
    \E a \in {V_1, V_2}, b \in SavedCells :
        /\ Len(RowsOf(tables, N_t)) < MaxSavedRows
        /\ LET out == insert(tables, N_t, NoList, <<(<<a, b>>)>>) IN
            /\ tables' = out.tables
            /\ last' = [op |-> "insert", table |-> N_t, col_list |-> NoList,
                        values |-> <<(<<a, b>>)>>, res |-> out.res]
        /\ UNCHANGED <<file, history>>

Save ==
    \E io \in FileAnswers(to_string_pretty(tables)) :
        LET out == save(tables, file, io) IN
        /\ file' = out.file
        /\ last' = [op |-> "save", io |-> io, res |-> out.res]
        /\ UNCHANGED <<tables, history>>

Load ==
    \E read_ok \in BOOLEAN :
        LET out == load(file, read_ok) IN
        /\ last' = [op |-> "load", read_ok |-> read_ok,
                    loaded |-> out.tables, res |-> out.res]
        /\ UNCHANGED <<tables, file, history>>

NextPersist == CreateSaved \/ InsertSaved \/ Save \/ Load

SpecPersist == Init /\ [][NextPersist]_vars

(***************************************************************************)
(* execute_sql is called with scripts of up to three statements over the   *)
(* table t(a INT PRIMARY KEY NOT NULL, b VARCHAR(8)): statements that      *)
(* succeed, statements that fail, a syntax error, blank segments, the      *)
(* SELECT of an arithmetic expression, and a SELECT whose condition holds  *)
(* a parenthesis in a quoted literal.  The save at the end is answered by  *)
(* a write that succeeds, that does not begin, or that stops part-way.     *)
(* Every call starts from the file the call before it left.                *)
(***************************************************************************)
SchemaE == <<Column(C_a, DataTypeInt(10), TRUE, TRUE),
             Column(C_b, DataTypeVarchar(8), FALSE, FALSE)>>
V_sq_x == <<"'", "x", "'">>
V_sq_y == <<"'", "y", "'">>
\* (b = ' )')
W_paren_in_literal == <<"(", "b", " ", "=", " ", "'", " ", ")", "'", ")">>

Blank == [kind |-> "blank"]
SyntaxError == [kind |-> "syntax_error"]
CreateStmt(name, columns) == [kind |-> "create_table", name |-> name, columns |-> columns]
InsertStmt(table, a, b) ==
    [kind |-> "insert", table |-> table, col_list |-> NoList,
     values |-> <<(<<a, b>>)>>]
UpdateStmt(table, set, cond) ==
    [kind |-> "update", table |-> table, set |-> set, cond |-> cond]
DeleteStmt(table, cond) == [kind |-> "delete", table |-> table, cond |-> cond]
DropStmt(table_names, if_exists) ==
    [kind |-> "drop", table_names |-> table_names, if_exists |-> if_exists]
SelectStmt(table, columns, cond) ==
    [kind |-> "select", table |-> table, columns |-> columns, cond |-> cond,
     order_by |-> <<>>]

CalculateStmt == [kind |-> "calculate"]

HistoryWord == [history_word |-> TRUE, segments |-> <<>>]
Script(segments) == [history_word |-> FALSE, segments |-> segments]

\* The rows offered have the keys 1 and 2, so that the table of the file
\* never holds more than two rows.
SqlInputs ==
    {HistoryWord,
     Script(<<CalculateStmt, CreateStmt(N_t, SchemaE)>>),
     Script(<<InsertStmt(N_t, V_1, V_sq_x), InsertStmt(N_t, V_1, V_sq_y),
              InsertStmt(N_t, V_2, V_sq_x)>>),
     Script(<<SyntaxError, Blank, InsertStmt(N_t, V_2, V_sq_x)>>),
     Script(<<UpdateStmt(N_t, <<Assign(C_b, V_sq_y)>>, SomeCond(K_a_eq_1)),
              SelectStmt(N_u, <<Star>>, NoCond),
              DeleteStmt(N_t, SomeCond(K_a_gt_1))>>),
     Script(<<InsertStmt(N_t, V_2, V_sq_y),
              SelectStmt(N_t, <<Star>>, SomeCond(W_paren_in_literal)),
              DeleteStmt(N_t, NoCond)>>),
     Script(<<SelectStmt(N_t, <<C_b>>, SomeCond(K_a_eq_1)),
              DropStmt(<<N_t>>, FALSE), DropStmt(<<N_u>>, TRUE)>>)}

\* The answers of the file system offered to the save of line 214.
SqlFileAnswers == {Written, Failed} \cup {Partial(n, FALSE) : n \in FailedWriteSizes}

ExecuteSql ==
    \E input \in SqlInputs, io \in SqlFileAnswers,
       read_ok \in BOOLEAN, overflow_checks \in BOOLEAN :
        /\ \E out \in {execute_sql(input, file, io, read_ok, overflow_checks)} :
            /\ file' = out.file
            /\ last' = [op |-> "execute_sql", input |-> input, io |-> io,
                        read_ok |-> read_ok, overflow_checks |-> overflow_checks,
                        ret |-> out.ret,
                        res |-> IF out.ret = "panic" THEN Err("panic") ELSE Ok(0)]
        /\ UNCHANGED <<tables, history>>

NextSql == ExecuteSql

SpecSql == Init /\ [][NextSql]_vars

(***************************************************************************)
(* The claims.  What a claim calls NULL, a conforming cell, the cell a row *)
(* supplies for a column and the stored form of a value are defined here   *)
(* from the claim's words, apart from the operators that model the code.   *)
(***************************************************************************)
\* NULL: empty after trimming whitespace, or "null" in any letter case.
SpecIsNull(v) == Trim(v) = <<>> \/ ToLower(Trim(v)) = NullToken

\* An Int cell parses as a 32-bit signed integer; a Varchar(max) cell has
\* length at most max.
SpecConforms(column, v) ==
    IF column.data_type.tag = "Int" THEN ParseI32(v).ok
    ELSE StrLen(v) <= column.data_type.n

\* The token NULL is written as the empty string.
SpecStored(v) == IF ToLower(Trim(v)) = NullToken THEN <<>> ELSE v

Listed(col_list, name) ==
    col_list.some /\ \E i \in 1..Len(col_list.names) : col_list.names[i] = name

\* A row that can be laid out on the columns: one value per listed column,
\* every listed column in the table; without a list, one value per column.
WellFormed(columns, col_list, row) ==
    IF col_list.some
    THEN /\ Len(col_list.names) = Len(row)
         /\ \A i \in 1..Len(col_list.names) :
                \E q \in 1..Len(columns) : columns[q].name = col_list.names[i]
    ELSE Len(row) = Len(columns)

\* The value a well-formed row has for the column at position q: the value
\* listed for it (the last one, should the list name the column twice), the
\* empty string for a column the list leaves out.
CellFor(columns, col_list, row, q) ==
    IF ~col_list.some THEN row[q]
    ELSE IF Listed(col_list, columns[q].name)
    THEN row[CHOOSE i \in 1..Len(col_list.names) :
                /\ col_list.names[i] = columns[q].name
                /\ \A j \in (i + 1)..Len(col_list.names) :
                        col_list.names[j] # columns[q].name]
    ELSE <<>>

RowAsStored(columns, col_list, row) ==
    [q \in 1..Len(columns) |-> SpecStored(CellFor(columns, col_list, row, q))]

NullInRequired(columns, col_list, row) ==
    \E q \in 1..Len(columns) :
        /\ columns[q].not_null \/ columns[q].is_primary
        /\ SpecIsNull(CellFor(columns, col_list, row, q))

\* The position of the primary column of the table, 0 when it has none.
PrimaryOf(columns) ==
    IF \E q \in 1..Len(columns) : columns[q].is_primary
    THEN CHOOSE q \in 1..Len(columns) :
            columns[q].is_primary /\ \A j \in 1..(q - 1) : ~columns[j].is_primary
    ELSE 0

RepeatsKey(columns, data, col_list, row) ==
    /\ PrimaryOf(columns) # 0
    /\ ~SpecIsNull(CellFor(columns, col_list, row, PrimaryOf(columns)))
    /\ \E r \in 1..Len(data) :
        data[r][PrimaryOf(columns)] = CellFor(columns, col_list, row, PrimaryOf(columns))

\* A step that is an insert call on an existing table.
InsertStep ==
    /\ last = Idle
    /\ last'.op = "insert"
    /\ FindTable(tables, last'.table) # 0

OldColumns == tables[FindTable(tables, last'.table)].columns
OldRows == tables[FindTable(tables, last'.table)].data
NewRows == tables'[FindTable(tables, last'.table)].data

\* C1: no table with a primary column holds two rows with the same
\* non-NULL value in that column.
C1_PrimaryKeyUnique ==
    \A t \in 1..Len(tables) :
        LET pk == PrimaryOf(tables[t].columns)
            data == tables[t].data
        IN  pk # 0 =>
                \A r1 \in 1..Len(data), r2 \in 1..Len(data) :
                    (r1 # r2 /\ data[r1][pk] = data[r2][pk]) => SpecIsNull(data[r1][pk])

\* C2: every stored row has exactly as many cells as its table has columns.
C2_RowWidth ==
    \A t \in 1..Len(tables) :
        \A r \in 1..Len(tables[t].data) :
            Len(tables[t].data[r]) = Len(tables[t].columns)

\* A row inserted under a column list and a full row are both stored.
C2_Witness ==
    /\ last.op = "insert"
    /\ last.col_list.some
    /\ last.res.ok
    /\ Len(RowsOf(tables, N_t)) = 2

\* C3: no stored cell of a NOT NULL column or of a primary column is NULL.
C3_NoNullInRequired ==
    \A t \in 1..Len(tables) :
        \A r \in 1..Len(tables[t].data), q \in 1..Len(tables[t].columns) :
            (tables[t].columns[q].not_null \/ tables[t].columns[q].is_primary)
                => ~SpecIsNull(tables[t].data[r][q])

\* C4: every stored non-NULL cell conforms to the type of its column.
C4_CellsConformToType ==
    \A t \in 1..Len(tables) :
        \A r \in 1..Len(tables[t].data), q \in 1..Len(tables[t].columns) :
            SpecIsNull(tables[t].data[r][q])
                \/ SpecConforms(tables[t].columns[q], tables[t].data[r][q])

\* The case of C5: one well-formed row whose primary value is not NULL and
\* is the primary value of a stored row.
C5_Case ==
    /\ InsertStep
    /\ Len(last'.values) = 1
    /\ WellFormed(OldColumns, last'.col_list, last'.values[1])
    /\ RepeatsKey(OldColumns, OldRows, last'.col_list, last'.values[1])

\* C5 as stated: inserting one row that repeats a stored non-NULL primary
\* value fails with a duplicate-key error and leaves the table as it was.
C5_DuplicateIsDuplicateKey ==
    [][C5_Case => (last'.res.err = "DuplicateKey" /\ tables' = tables)]_vars

\* C5 as amended: such an insert fails and leaves the table as it was; the
\* error is duplicate-key unless the row also holds NULL in a NOT NULL
\* column, which the NOT NULL check, made first, reports as missing-value.
C5_DuplicateRejected ==
    [][C5_Case =>
        /\ tables' = tables
        /\ last'.res.err =
            (IF NullInRequired(OldColumns, last'.col_list, last'.values[1])
             THEN "MissingValue" ELSE "DuplicateKey")]_vars

\* A single-row insert was refused as a duplicate key.
C5_Witness ==
    /\ last.op = "insert"
    /\ Len(last.values) = 1
    /\ last.res.err = "DuplicateKey"
    /\ Len(RowsOf(tables, last.table)) >= 1

\* C6: inserting one row that holds NULL in a NOT NULL column or in the
\* primary column fails with a missing-value error and leaves the table as
\* it was.
C6_NullRejected ==
    [][(/\ InsertStep
        /\ Len(last'.values) = 1
        /\ WellFormed(OldColumns, last'.col_list, last'.values[1])
        /\ NullInRequired(OldColumns, last'.col_list, last'.values[1]))
       => (last'.res.err = "MissingValue" /\ tables' = tables)]_vars

\* A single-row insert was refused for a NULL in the primary column of a
\* table whose primary column is not declared NOT NULL.
C6_Witness ==
    /\ last.op = "insert"
    /\ Len(last.values) = 1
    /\ last.res.err = "MissingValue"
    /\ FindTable(tables, last.table) # 0
    /\ tables[FindTable(tables, last.table)].columns = SchemaQ
    /\ ~last.col_list.some
    /\ SpecIsNull(last.values[1][1])

\* C7: inserting one row with a non-NULL cell that does not conform to the
\* type of its column fails with a type-mismatch (Int) or value-too-long
\* (Varchar) error and leaves the table unchanged.  Stated for rows that
\* have no other defect, so that no earlier check can answer first.
C7_TypeErrorsRejected ==
    [][(/\ InsertStep
        /\ Len(last'.values) = 1
        /\ WellFormed(OldColumns, last'.col_list, last'.values[1])
        /\ ~NullInRequired(OldColumns, last'.col_list, last'.values[1])
        /\ ~RepeatsKey(OldColumns, OldRows, last'.col_list, last'.values[1])
        /\ \E q \in 1..Len(OldColumns) :
            LET v == CellFor(OldColumns, last'.col_list, last'.values[1], q) IN
            ~SpecIsNull(v) /\ ~SpecConforms(OldColumns[q], v))
       => (last'.res.err \in {"TypeMismatch", "ValueTooLong"} /\ tables' = tables)]_vars

\* Validation of row k of an insert call, as insert makes it: the row is
\* well-formed, holds no NULL in a NOT NULL or primary column and does not
\* repeat a primary value of the rows stored before it.
RowPasses(columns, data, col_list, row) ==
    /\ WellFormed(columns, col_list, row)
    /\ ~NullInRequired(columns, col_list, row)
    /\ ~RepeatsKey(columns, data, col_list, row)

\* The previous rows followed by rows 1..k of the call.
WithRows(columns, data, col_list, values, k) ==
    data \o [j \in 1..k |-> RowAsStored(columns, col_list, values[j])]

\* The first row of the call that fails validation, 0 when none does.
FirstFailing(columns, data, col_list, values) ==
    LET Fails(k) ==
            ~RowPasses(columns, WithRows(columns, data, col_list, values, k - 1),
                       col_list, values[k])
    IN  IF \E k \in 1..Len(values) : Fails(k) /\ \A j \in 1..(k - 1) : ~Fails(j)
        THEN CHOOSE k \in 1..Len(values) : Fails(k) /\ \A j \in 1..(k - 1) : ~Fails(j)
        ELSE 0

\* C8: an insert call that fails validation at row k returns an error and
\* leaves the previous rows followed by rows 1..k-1 of the call; when no
\* row fails, all rows are appended in order and the count is their number.
C8_PrefixCommitted ==
    [][InsertStep =>
        LET k == FirstFailing(OldColumns, OldRows, last'.col_list, last'.values) IN
        IF k = 0
        THEN /\ last'.res.ok
             /\ last'.res.count = Len(last'.values)
             /\ NewRows = WithRows(OldColumns, OldRows, last'.col_list,
                                   last'.values, Len(last'.values))
        ELSE /\ ~last'.res.ok
             /\ NewRows = WithRows(OldColumns, OldRows, last'.col_list,
                                   last'.values, k - 1)]_vars

\* A two-row insert failed at its second row and kept its first.
C8_Witness ==
    /\ last.op = "insert"
    /\ Len(last.values) = 2
    /\ ~last.res.ok
    /\ Len(RowsOf(tables, last.table)) = 1
    /\ RowsOf(tables, last.table)[1][1] = last.values[1][1]

\* C9: under a column list every appended row holds the i-th supplied
\* value (the empty string for the token NULL) at the position of the i-th
\* listed column and the empty string at every position not listed; a row
\* with another number of values than listed columns, or a listed column
\* that is not in the table, fails the call and is not appended.
C9_ColumnListPlacement ==
    [][(InsertStep /\ last'.col_list.some) =>
        LET appended == Len(NewRows) - Len(OldRows)
            names == last'.col_list.names
        IN
        /\ appended \in 0..Len(last'.values)
        /\ SubSeq(NewRows, 1, Len(OldRows)) = OldRows
        /\ \A j \in 1..appended :
            LET row == NewRows[Len(OldRows) + j] IN
            /\ \A i \in 1..Len(names), q \in 1..Len(OldColumns) :
                OldColumns[q].name = names[i]
                    => row[q] = SpecStored(last'.values[j][i])
            /\ \A q \in 1..Len(OldColumns) :
                ~Listed(last'.col_list, OldColumns[q].name) => row[q] = <<>>
        /\ \A k \in 1..Len(last'.values) :
            ~WellFormed(OldColumns, last'.col_list, last'.values[k])
                => (~last'.res.ok /\ appended < k)]_vars

\* C10: the empty string is the only stored representation of NULL: no
\* stored cell is the token null in any letter case, or whitespace only.
C10_EmptyStringOnlyNull ==
    \A t \in 1..Len(tables) :
        \A r \in 1..Len(tables[t].data), q \in 1..Len(tables[t].columns) :
            SpecIsNull(tables[t].data[r][q]) => tables[t].data[r][q] = <<>>

\* Two names are equal case-insensitively.
SameNameIgnoringCase(a, b) == ToLower(a) = ToLower(b)

NamesUnique(tabs) ==
    \A i \in 1..Len(tabs), j \in 1..Len(tabs) :
        i # j => ~SameNameIgnoringCase(tabs[i].name, tabs[j].name)

\* C11: create_table fails and leaves the table list unchanged when a table
\* with a name equal to the new name case-insensitively exists; otherwise it
\* appends one table with the given columns and no rows; so no two tables
\* ever have names that are equal case-insensitively.
C11_CreateTableUniqueNames ==
    [][(last = Idle /\ last'.op = "create_table") =>
        /\ IF \E i \in 1..Len(tables) :
                SameNameIgnoringCase(tables[i].name, last'.name)
           THEN ~last'.res.ok /\ tables' = tables
           ELSE /\ last'.res.ok
                /\ tables' = Append(tables, [name |-> last'.name,
                                             columns |-> last'.columns,
                                             data |-> <<>>])
        /\ NamesUnique(tables')]_vars

\* A name of the list that is the name of a table.
Exists(tabs, name) == \E i \in 1..Len(tabs) : tabs[i].name = name

DropStep == last = Idle /\ last'.op = "drop"

\* C12: drop with if_exists = false and a list in which at least one name
\* is not an existing table returns an error and removes no table.
C12_DropMissingRemovesNothing ==
    [][(/\ DropStep
        /\ ~last'.if_exists
        /\ \E i \in 1..Len(last'.table_names) :
                ~Exists(tables, last'.table_names[i]))
       => (~last'.res.ok /\ tables' = tables)]_vars

\* A drop without if_exists named an existing and a missing table, failed
\* and left the existing one in place.
C12_Witness ==
    /\ last.op = "drop"
    /\ ~last.if_exists
    /\ ~last.res.ok
    /\ Len(last.table_names) = 2
    /\ \E i \in 1..2 : Exists(tables, last.table_names[i])
    /\ \E i \in 1..2 : ~Exists(tables, last.table_names[i])

\* The tables of tabs whose names are not in the list, in their order.
RECURSIVE Unlisted(_, _)
Unlisted(tabs, table_names) ==
    IF tabs = <<>> THEN <<>>
    ELSE IF \E i \in 1..Len(table_names) : table_names[i] = Head(tabs).name
    THEN Unlisted(Tail(tabs), table_names)
    ELSE <<Head(tabs)>> \o Unlisted(Tail(tabs), table_names)

\* C13: drop with if_exists = true always succeeds, removes exactly the
\* listed tables that exist, leaves the others and their order as they
\* were, and returns the number of tables removed.
C13_DropIfExists ==
    [][(DropStep /\ last'.if_exists) =>
        /\ last'.res.ok
        /\ tables' = Unlisted(tables, last'.table_names)
        /\ last'.res.count = Len(tables) - Len(tables')
        /\ last'.res.count =
            Cardinality({i \in 1..Len(tables) :
                \E k \in 1..Len(last'.table_names) :
                    last'.table_names[k] = tables[i].name})]_vars

\* A drop with if_exists removed the middle one of three tables and skipped
\* a name that did not exist.
C13_Witness ==
    /\ last.op = "drop"
    /\ last.if_exists
    /\ last.res.ok
    /\ last.res.count = 1
    /\ Len(last.table_names) = 2
    /\ Len(tables) = 2
    /\ tables[1].name # tables[2].name

\* What the comparisons used in the calls mean, read from the condition
\* grammar: column, operator and literal.
Meaning(text) ==
    IF text = K_a_eq_1 THEN [col |-> C_a, op |-> "=", val |-> V_1]
    ELSE IF text = K_a_eq_9 THEN [col |-> C_a, op |-> "=", val |-> V_9]
    ELSE IF text = K_a_eq_7 THEN [col |-> C_a, op |-> "=", val |-> <<"7">>]
    ELSE [col |-> C_a, op |-> ">", val |-> V_1]

KnownConds == {K_a_eq_1, K_a_gt_1, K_a_eq_9, K_a_eq_7}

\* A cell as a number: a cell that is no integer counts as 0.
SpecNumber(v) == IF ParseI32(v).ok THEN ParseI32(v).val ELSE 0

\* The row satisfies the condition; every row satisfies an absent one.
Satisfies(cond, columns, row) ==
    IF ~cond.some THEN TRUE
    ELSE
        LET m == Meaning(cond.text)
            q == CHOOSE q \in 1..Len(columns) : columns[q].name = m.col
        IN  IF m.op = "=" THEN row[q] = m.val
            ELSE SpecNumber(row[q]) > SpecNumber(m.val)

\* C14: delete removes exactly the rows that satisfy the condition, keeps
\* the other rows in their order and returns the number of rows removed;
\* without a condition it removes every row and returns the row count.
C14_DeleteRemovesMatching ==
    [][(/\ last = Idle
        /\ last'.op = "delete"
        /\ FindTable(tables, last'.table) # 0
        /\ last'.cond.some => last'.cond.text \in KnownConds)
       =>
        /\ last'.res.ok
        /\ NewRows = SelectSeq(OldRows,
                LAMBDA row : ~Satisfies(last'.cond, OldColumns, row))
        /\ last'.res.count = Len(OldRows) - Len(NewRows)
        /\ ~last'.cond.some => (NewRows = <<>> /\ last'.res.count = Len(OldRows))]_vars

\* A delete with a condition removed the first of two rows and kept the
\* second.
C14_Witness ==
    /\ last.op = "delete"
    /\ last.cond.some
    /\ last.res.ok
    /\ last.res.count = 1
    /\ Len(RowsOf(tables, last.table)) = 1
    /\ ~Satisfies(last.cond, tables[FindTable(tables, last.table)].columns,
                  RowsOf(tables, last.table)[1])

\* x is before y in the lexicographic order of strings: the strings agree
\* up to a place where x ends or holds the smaller character.
LexLess(x, y) ==
    \E k \in 1..Len(y) :
        /\ k - 1 <= Len(x)
        /\ SubSeq(x, 1, k - 1) = SubSeq(y, 1, k - 1)
        /\ k - 1 = Len(x) \/ CharCode(x[k]) < CharCode(y[k])

\* The order of two cells of a column: numeric for Int, lexicographic for
\* Varchar.
KeyLess(column, x, y) ==
    IF column.data_type.tag = "Int" THEN SpecNumber(x) < SpecNumber(y)
    ELSE LexLess(x, y)

KeySame(column, x, y) == ~KeyLess(column, x, y) /\ ~KeyLess(column, y, x)

\* The table read by the select call that last holds, its position q of a
\* column name, and the stored rows that satisfy the condition of the call.
Queried == tables[FindTable(tables, last.table)]
ColumnAt(name) == CHOOSE q \in 1..Len(Queried.columns) : Queried.columns[q].name = name
HasColumn(name) == \E q \in 1..Len(Queried.columns) : Queried.columns[q].name = name
Matching == SelectSeq(Queried.data,
                      LAMBDA row : Satisfies(last.cond, Queried.columns, row))

\* A select call on an existing table whose condition, if any, compiles.
SelectDone ==
    /\ last.op = "select"
    /\ FindTable(tables, last.table) # 0
    /\ last.cond.some => last.cond.text \in KnownConds

\* A select call that returns whole rows, sorted on keys the table has.
SortedWhole ==
    /\ SelectDone
    /\ last.columns = <<Star>>
    /\ last.order_by.some
    /\ \A k \in 1..Len(last.order_by.cols) : HasColumn(last.order_by.cols[k].col)

\* The result holds the matching rows, each once, in some order.
ResultIsMatching ==
    /\ last.res.ok
    /\ Len(last.rows) = Len(Matching)
    /\ {last.rows[i] : i \in 1..Len(last.rows)} = {Matching[i] : i \in 1..Len(Matching)}

\* Rows x and y on sort key k of the call: the cells and the column.
KeyColumn(k) == Queried.columns[ColumnAt(last.order_by.cols[k].col)]
KeyCell(k, row) == row[ColumnAt(last.order_by.cols[k].col)]

\* C15: select with no condition and no order_by returns one row per
\* stored row in storage order: the whole row in schema order under the
\* wildcard, the cells of the requested columns in the requested order
\* under a column list.
C15_SelectPlain ==
    (/\ SelectDone
     /\ ~last.cond.some
     /\ ~last.order_by.some
     /\ last.columns = <<Star>> \/ \A i \in 1..Len(last.columns) : HasColumn(last.columns[i]))
    =>
    /\ last.res.ok
    /\ Len(last.rows) = Len(Queried.data)
    /\ \A r \in 1..Len(Queried.data) :
        last.rows[r] =
            (IF last.columns = <<Star>> THEN Queried.data[r]
             ELSE [i \in 1..Len(last.columns) |->
                        Queried.data[r][ColumnAt(last.columns[i])]])

\* A plain select of (b, id) returned two rows.
C15_Witness ==
    /\ last.op = "select"
    /\ ~last.cond.some
    /\ ~last.order_by.some
    /\ last.columns = <<C_b, C_id>>
    /\ last.res.ok
    /\ Len(last.rows) = 2
    /\ last.rows[2] = <<Queried.data[2][3], Queried.data[2][1]>>

\* C16: select with the single sort key (c, false) returns the matching rows
\* in non-decreasing order of column c, with (c, true) in non-increasing
\* order; an Int column is compared numerically, a Varchar column
\* lexicographically.
C16_SingleKeyOrder ==
    (SortedWhole /\ Len(last.order_by.cols) = 1)
    =>
    /\ ResultIsMatching
    /\ \A i \in 1..Len(last.rows), j \in 1..Len(last.rows) :
        i < j =>
            IF last.order_by.cols[1].desc
            THEN ~KeyLess(KeyColumn(1), KeyCell(1, last.rows[i]), KeyCell(1, last.rows[j]))
            ELSE ~KeyLess(KeyColumn(1), KeyCell(1, last.rows[j]), KeyCell(1, last.rows[i]))

\* Ascending on the Int column a, the row with 9 came before the row with
\* 10, which was stored first.
C16_Witness ==
    /\ SortedWhole
    /\ last.order_by.cols = <<Key(C_a, FALSE)>>
    /\ Len(last.rows) = 2
    /\ last.rows[1][2] = V_9
    /\ last.rows[2][2] = V_10
    /\ Queried.data[1][2] = V_10

\* The first sort key of the call on which rows x and y differ, 0 if none.
FirstDiffering(x, y) ==
    LET differ == {k \in 1..Len(last.order_by.cols) :
                        ~KeySame(KeyColumn(k), KeyCell(k, x), KeyCell(k, y))}
    IN  IF differ = {} THEN 0
        ELSE CHOOSE k \in differ : \A m \in differ : k <= m

\* C17: for any list of sort keys, ascending and descending in any place,
\* the order of two result rows is decided by the first key on which they
\* differ, in that key's direction; a key on which they are equal never
\* decides.
C17_FirstDifferingKeyDecides ==
    SortedWhole =>
        /\ ResultIsMatching
        /\ \A i \in 1..Len(last.rows), j \in 1..Len(last.rows) :
            LET k == FirstDiffering(last.rows[i], last.rows[j]) IN
            (i < j /\ k # 0) =>
                IF last.order_by.cols[k].desc
                THEN KeyLess(KeyColumn(k), KeyCell(k, last.rows[j]), KeyCell(k, last.rows[i]))
                ELSE KeyLess(KeyColumn(k), KeyCell(k, last.rows[i]), KeyCell(k, last.rows[j]))

\* C18: select with order_by = [(a, false), (b, true)] returns the rows by
\* a ascending and, among rows with equal a, by b descending.
C18_AscendingThenDescending ==
    (SortedWhole /\ last.order_by.cols = <<Key(C_a, FALSE), Key(C_b, TRUE)>>)
    =>
    /\ ResultIsMatching
    /\ \A i \in 1..Len(last.rows), j \in 1..Len(last.rows) :
        i < j =>
            /\ ~KeyLess(KeyColumn(1), KeyCell(1, last.rows[j]), KeyCell(1, last.rows[i]))
            /\ KeySame(KeyColumn(1), KeyCell(1, last.rows[i]), KeyCell(1, last.rows[j]))
                => ~KeyLess(KeyColumn(2), KeyCell(2, last.rows[i]), KeyCell(2, last.rows[j]))

\* Two rows with the same a came out by b descending, against their
\* storage order, behind a row with a smaller a.
C18_Witness ==
    /\ SortedWhole
    /\ last.order_by.cols = <<Key(C_a, FALSE), Key(C_b, TRUE)>>
    /\ Len(last.rows) = 3
    /\ last.rows[1][2] = V_9
    /\ last.rows[2][2] = V_10
    /\ last.rows[3][2] = V_10
    /\ last.rows[2][3] = V_b
    /\ last.rows[3][3] = V_ab
    /\ Queried.data[1] = last.rows[3]

\* The place of a row in table storage; the id makes every row distinct.
StoredAt(row) == CHOOSE r \in 1..Len(Queried.data) : Queried.data[r] = row

\* C19: the sort is stable: two matching rows that are equal on every sort
\* key come out in their storage order, for ascending and descending keys.
C19_StableSort ==
    SortedWhole =>
        /\ ResultIsMatching
        /\ \A i \in 1..Len(last.rows), j \in 1..Len(last.rows) :
            (i < j /\ FirstDiffering(last.rows[i], last.rows[j]) = 0)
                => StoredAt(last.rows[i]) < StoredAt(last.rows[j])

\* Under a descending key two equal rows kept their storage order while a
\* row stored between them was moved in front of both.
C19_Witness ==
    /\ SortedWhole
    /\ last.order_by.cols = <<Key(C_b, TRUE)>>
    /\ Len(last.rows) = 3
    /\ last.rows = <<Queried.data[2], Queried.data[1], Queried.data[3]>>
    /\ Queried.data[1][3] = Queried.data[3][3]

\* C20: select returns an error whenever the table does not exist, a
\* projected column does not exist or an order_by column does not exist,
\* whatever the rows and however many match the condition.
C20_SelectUnknownNames ==
    (/\ last.op = "select"
     /\ \/ FindTable(tables, last.table) = 0
        \/ /\ last.columns # <<Star>>
           /\ \E i \in 1..Len(last.columns) : ~HasColumn(last.columns[i])
        \/ /\ last.order_by.some
           /\ \E k \in 1..Len(last.order_by.cols) : ~HasColumn(last.order_by.cols[k].col))
    => ~last.res.ok


\* A step that is an update call on an existing table.
UpdateStep ==
    /\ last = Idle
    /\ last'.op = "update"
    /\ FindTable(tables, last'.table) # 0

\* The value a SET assignment stores: the text between the quotes of a
\* quoted literal, the empty string for the token NULL, else the text.
SpecSetValue(v) ==
    IF Len(v) >= 2 /\ v[1] = v[Len(v)] /\ v[1] \in {"'", "\""}
    THEN SubSeq(v, 2, Len(v) - 1)
    ELSE IF ToLower(v) = <<"n", "u", "l", "l">> THEN <<>>
    ELSE v

\* The SET list assigns column q of the table.
Assigned(columns, set, q) == \E i \in 1..Len(set) : set[i].col = columns[q].name

\* The value the SET list gives column q (the last one, if it gives several).
NewValueFor(columns, set, q) ==
    LET i == CHOOSE i \in 1..Len(set) :
                /\ set[i].col = columns[q].name
                /\ \A j \in (i + 1)..Len(set) : set[j].col # columns[q].name
    IN  SpecSetValue(set[i].val)

\* The row with every assignment of the SET list applied.
RowAfter(columns, set, row) ==
    [q \in 1..Len(row) |->
        IF Assigned(columns, set, q) THEN NewValueFor(columns, set, q) ELSE row[q]]

\* The SET list gives the primary column the primary value of a stored row.
AssignsStoredKey(columns, data, set) ==
    /\ PrimaryOf(columns) # 0
    /\ \E i \in 1..Len(set), r \in 1..Len(data) :
        /\ set[i].col = columns[PrimaryOf(columns)].name
        /\ SpecSetValue(set[i].val) = data[r][PrimaryOf(columns)]

\* C21: an update that matches at least one row and whose SET list assigns
\* the primary column the current primary value of any stored row (the
\* matched row included) fails with the duplicate-key error and changes no
\* cell.
C21_UpdateDuplicateKeyRejected ==
    [][(/\ UpdateStep
        /\ last'.cond.some => last'.cond.text \in KnownConds
        /\ \E r \in 1..Len(OldRows) : Satisfies(last'.cond, OldColumns, OldRows[r])
        /\ AssignsStoredKey(OldColumns, OldRows, last'.set))
       =>
        /\ last'.res.err = "DuplicateKey"
        /\ tables' = tables]_vars

\* An update with a condition that matches a row was refused because its
\* quoted new key is the key of a stored row.
C21_Witness ==
    /\ last.op = "update"
    /\ last.res.err = "DuplicateKey"
    /\ last.cond.some
    /\ last.cond.text = K_a_eq_1
    /\ last.set = <<Assign(C_a, V_q1)>>
    /\ \E r \in 1..Len(RowsOf(tables, last.table)) :
            RowsOf(tables, last.table)[r][1] = V_1

\* C22: update never commits a row partially: when it returns an error,
\* every row is unchanged or has received all the assignments.
C22_NoPartialRow ==
    [][(UpdateStep /\ ~last'.res.ok)
       =>
        /\ Len(NewRows) = Len(OldRows)
        /\ \A r \in 1..Len(OldRows) :
            \/ NewRows[r] = OldRows[r]
            \/ NewRows[r] = RowAfter(OldColumns, last'.set, OldRows[r])]_vars

\* C23: a successful update returns the number of rows that satisfy the
\* condition; each of them holds the new value in every assigned column
\* and its previous value elsewhere; the other rows are unchanged; the
\* number and the order of the rows are unchanged.
C23_UpdateAssignsMatching ==
    [][(/\ UpdateStep
        /\ last'.cond.some => last'.cond.text \in KnownConds
        /\ last'.res.ok)
       =>
        /\ last'.res.count =
            Cardinality({r \in 1..Len(OldRows) :
                            Satisfies(last'.cond, OldColumns, OldRows[r])})
        /\ Len(NewRows) = Len(OldRows)
        /\ \A r \in 1..Len(OldRows) :
            NewRows[r] = IF Satisfies(last'.cond, OldColumns, OldRows[r])
                         THEN RowAfter(OldColumns, last'.set, OldRows[r])
                         ELSE OldRows[r]]_vars

\* An update with two assignments and a condition changed the first of two
\* rows in both columns and left the second as it was.
C23_Witness ==
    /\ last.op = "update"
    /\ last.res.ok
    /\ last.res.count = 1
    /\ last.cond.some
    /\ last.cond.text = K_a_eq_1
    /\ last.set = <<Assign(C_b, V_1), Assign(C_a, V_3)>>
    /\ Len(RowsOf(tables, last.table)) = 2
    /\ RowsOf(tables, last.table)[1] = <<V_3, V_1>>
    /\ RowsOf(tables, last.table)[2][1] = V_2


\* What the conditions read under SpecWhere mean, from the condition
\* grammar: a comparison is a column, an operator and a literal without its
\* quotes; AND and OR combine two conditions.
Cmp(col, op, lit) == [kind |-> "cmp", col |-> col, op |-> op, lit |-> lit]
Both(l, r) == [kind |-> "and", left |-> l, right |-> r]
Either(l, r) == [kind |-> "or", left |-> l, right |-> r]

A_eq_1 == Cmp(C_a, "=", V_1)
B_eq_2 == Cmp(C_b, "=", V_2)
C_eq_3 == Cmp(C_c, "=", V_3)
B_eq_xy == Cmp(C_b, "=", V_xy)

\* The cell of the named column in a row of t(a, b, c).
WhereCell(row, col) == row[CHOOSE q \in 1..Len(SchemaW) : SchemaW[q].name = col]

\* The text of a cell: the cell without the double quotes around it.
RECURSIVE CellText(_)
CellText(cell) ==
    IF cell # <<>> /\ Head(cell) = "\"" THEN CellText(Tail(cell))
    ELSE IF cell # <<>> /\ cell[Len(cell)] = "\"" THEN CellText(SubSeq(cell, 1, Len(cell) - 1))
    ELSE cell

\* The comparison holds of the value: = compares strings with their case,
\* > and < compare numbers, a value that is no integer counting as 0.
Compares(m, value) ==
    IF m.op = "=" THEN value = m.lit
    ELSE IF m.op = ">" THEN SpecNumber(value) > SpecNumber(m.lit)
    ELSE SpecNumber(value) < SpecNumber(m.lit)

\* The condition holds of the row, a comparison being made on the text of
\* the cell.
RECURSIVE Holds(_, _)
Holds(m, row) ==
    IF m.kind = "and" THEN Holds(m.left, row) /\ Holds(m.right, row)
    ELSE IF m.kind = "or" THEN Holds(m.left, row) \/ Holds(m.right, row)
    ELSE Compares(m, CellText(WhereCell(row, m.col)))

\* A select with the condition text on the table t(a, b, c).
Selected(text) ==
    /\ last.op = "select"
    /\ FindTable(tables, last.table) # 0
    /\ tables[FindTable(tables, last.table)].columns = SchemaW
    /\ last.cond = SomeCond(text)

\* The select succeeded with exactly the stored rows of which m holds.
SelectsWhere(m) ==
    /\ last.res.ok
    /\ last.rows = SelectSeq(RowsOf(tables, last.table), LAMBDA row : Holds(m, row))

\* C24: on a table with columns a, b, c, "a = 1 AND b = 2" selects the rows
\* that satisfy both comparisons, "a = 1 OR b = 2" the rows that satisfy at
\* least one, and "(a = 1 OR b = 2) AND c = 3" the rows that satisfy c = 3
\* and at least one of the other two.
C24_AndOrParentheses ==
    /\ Selected(W_and) => SelectsWhere(Both(A_eq_1, B_eq_2))
    /\ Selected(W_or) => SelectsWhere(Either(A_eq_1, B_eq_2))
    /\ Selected(W_paren_and) => SelectsWhere(Both(Either(A_eq_1, B_eq_2), C_eq_3))

\* The parenthesised condition selected a row that satisfies b = 2 and
\* c = 3 but not a = 1.
C24_Witness ==
    /\ Selected(W_paren_and)
    /\ last.res.ok
    /\ last.rows = <<(<<V_2, V_2, V_3>>)>>

\* C25: without parentheses AND binds tighter than OR: "p OR q AND r"
\* selects the rows satisfying p, or both q and r; "p AND q OR r" the rows
\* satisfying both p and q, or r.
C25_AndBindsTighter ==
    /\ Selected(W_or_and) => SelectsWhere(Either(A_eq_1, Both(B_eq_2, C_eq_3)))
    /\ Selected(W_and_or) => SelectsWhere(Either(Both(A_eq_1, B_eq_2), C_eq_3))

\* The upper-case form of a condition spelled with lower-case keywords.
UpperForm(text) ==
    IF text = W_and_lower THEN W_and
    ELSE IF text = W_paren_or_lower THEN W_paren_or
    ELSE W_b_is_null

\* C26: the keywords AND, OR, IS and NULL are recognised in any letter
\* case: "b is null", "a = 1 and b = 2" and "(a = 1) or b = 2" give the
\* result of their upper-case forms.
C26_KeywordsAnyCase ==
    \A text \in {W_and_lower, W_paren_or_lower, W_b_is_null_lower} :
        Selected(text) =>
            \E overflow_checks \in BOOLEAN :
                LET upper == select(tables, last.table, last.columns,
                                    SomeCond(UpperForm(text)), last.order_by,
                                    overflow_checks)
                IN  last.res = upper.res /\ last.rows = upper.rows

\* C27: a quoted literal may contain spaces and the words AND and OR: the
\* text inside the quotes is never a token separator, an AND/OR separator
\* or a parenthesis, at the top level or inside parentheses.
C27_QuotedLiterals ==
    /\ Selected(W_b_eq_xy) => SelectsWhere(B_eq_xy)
    /\ Selected(W_b_eq_x_or_y) => SelectsWhere(Cmp(C_b, "=", V_x_or_y))
    /\ Selected(W_paren_xy_and) => SelectsWhere(Both(B_eq_xy, A_eq_1))

\* The comparisons read under SpecWhere.
Comparison(text) ==
    IF text = K_a_eq_1 THEN A_eq_1
    ELSE IF text = K_a_gt_1 THEN Cmp(C_a, ">", V_1)
    ELSE IF text = W_a_lt_1 THEN Cmp(C_a, "<", V_1)
    ELSE IF text = W_a_eq_q1 THEN A_eq_1
    ELSE IF text = W_b_eq_xy THEN B_eq_xy
    ELSE IF text = W_b_eq_x THEN Cmp(C_b, "=", V_x)
    ELSE IF text = W_b_eq_dq_xy THEN B_eq_xy
    ELSE IF text = W_b_eq_x_or_y THEN Cmp(C_b, "=", V_x_or_y)
    ELSE IF text = W_b_eq_x_and_y THEN Cmp(C_b, "=", V_x_and_y)
    ELSE IF text = W_b_eq_x_paren THEN Cmp(C_b, "=", V_x_paren)
    ELSE IF text = W_b_eq_it_s THEN Cmp(C_b, "=", V_it_s)
    ELSE Cmp(C_b, ">", V_1)

Comparisons ==
    {K_a_eq_1, K_a_gt_1, W_a_lt_1, W_a_eq_q1, W_b_eq_xy, W_b_eq_x, W_b_gt_1,
     W_b_eq_dq_xy, W_b_eq_x_or_y, W_b_eq_x_and_y, W_b_eq_x_paren, W_b_eq_it_s}

C29_IsNullAgreesWithInsert ==
    /\ \A text \in {W_b_is_null, W_a_is_null} :
        Selected(text) =>
            /\ last.res.ok
            /\ last.rows = SelectSeq(RowsOf(tables, last.table),
                    LAMBDA row : SpecIsNull(WhereCell(row,
                                    IF text = W_a_is_null THEN C_a ELSE C_b)))
    /\ Selected(W_b_is_not_null) =>
            /\ last.res.ok
            /\ last.rows = SelectSeq(RowsOf(tables, last.table),
                    LAMBDA row : ~SpecIsNull(WhereCell(row, C_b)))

\* C30: for update and delete, as for select, a condition that fails to
\* compile makes the call return an error and leaves the database
\* unchanged; the call never succeeds with a count of 0.
C30_CompileErrorReturned ==
    [][(/\ last = Idle
        /\ last'.op \in {"update", "delete"}
        /\ FindTable(tables, last'.table) # 0
        /\ last'.cond = SomeCond(K_zz_eq_1))
       =>
        /\ ~last'.res.ok
        /\ tables' = tables]_vars


\* C31: no condition string makes an engine operation panic: compiling a
\* condition with a ')' that has no '(' before it, with an unbalanced '('
\* or the empty condition ends in a result or an error value.
C31_NoPanic ==
    last.op = "select" => last.res.err # "panic"


\* The call projects columns of the table and sorts on keys of the table,
\* one of which at least is not projected.
SortedOnUnprojected ==
    /\ SelectDone
    /\ last.columns # <<Star>>
    /\ \A i \in 1..Len(last.columns) : HasColumn(last.columns[i])
    /\ last.order_by.some
    /\ \A k \in 1..Len(last.order_by.cols) : HasColumn(last.order_by.cols[k].col)
    /\ \E k \in 1..Len(last.order_by.cols) :
        \A i \in 1..Len(last.columns) : last.columns[i] # last.order_by.cols[k].col

\* C33: select filters and sorts the full stored rows and projects
\* afterwards: ordering by a column that is not projected is accepted and
\* gives the rows of the same query under the wildcard, in the same
\* order, each cut down to the projected columns.
C33_SortBeforeProject ==
    SortedOnUnprojected =>
        /\ last.res.ok
        /\ \E overflow_checks \in BOOLEAN :
            LET whole == select(tables, last.table, <<Star>>, last.cond,
                                last.order_by, overflow_checks)
            IN  /\ whole.res.ok
                /\ Len(last.rows) = Len(whole.rows)
                /\ \A r \in 1..Len(whole.rows) :
                    last.rows[r] = [i \in 1..Len(last.columns) |->
                                        whole.rows[r][ColumnAt(last.columns[i])]]

\* A select of (b, id) ordered by a returned the second stored row before
\* the first.
C33_Witness ==
    /\ SortedOnUnprojected
    /\ last.res.ok
    /\ last.columns = <<C_b, C_id>>
    /\ last.order_by.cols = <<Key(C_a, FALSE)>>
    /\ Len(last.rows) = 2
    /\ last.rows[1][2] = V_2
    /\ last.rows[2][2] = V_1


\* Column q of the table is an Int column that may hold NULL: neither NOT
\* NULL nor primary.
NullableInt(columns, q) ==
    /\ columns[q].data_type.tag = "Int"
    /\ ~columns[q].not_null
    /\ ~columns[q].is_primary

\* The update did what a successful update does: it returned the number
\* of rows that satisfy the condition and gave those rows the new values.
UpdatedMatching ==
    /\ last'.res.ok
    /\ last'.res.count =
        Cardinality({r \in 1..Len(OldRows) :
                        Satisfies(last'.cond, OldColumns, OldRows[r])})
    /\ Len(NewRows) = Len(OldRows)
    /\ \A r \in 1..Len(OldRows) :
        NewRows[r] = IF Satisfies(last'.cond, OldColumns, OldRows[r])
                     THEN RowAfter(OldColumns, last'.set, OldRows[r])
                     ELSE OldRows[r]

\* C34: update applies the type check to non-NULL values only: an update
\* that sets an Int column that may hold NULL to NULL succeeds and stores
\* the empty string in the matching rows.
C34_UpdateNullIntoNullableInt ==
    [][(/\ UpdateStep
        /\ last'.cond.some => last'.cond.text \in KnownConds
        /\ Len(last'.set) = 1
        /\ SpecIsNull(last'.set[1].val)
        /\ \E q \in 1..Len(OldColumns) :
            /\ OldColumns[q].name = last'.set[1].col
            /\ NullableInt(OldColumns, q))
       => UpdatedMatching]_vars

\* C35: the constraint checks of update are made per matching row: an
\* update whose condition matches no row returns a count of 0 and changes
\* nothing, whatever its SET list, even one that assigns the primary
\* column a value some row holds.
C35_UpdateMatchingNothing ==
    [][(/\ UpdateStep
        /\ last'.cond.some
        /\ last'.cond.text \in KnownConds
        /\ \A r \in 1..Len(OldRows) : ~Satisfies(last'.cond, OldColumns, OldRows[r]))
       =>
        /\ last'.res = Ok(0)
        /\ tables' = tables]_vars

\* The assignments of the SET list to columns the table has.
KnownAssignments(columns, set) ==
    SelectSeq(set, LAMBDA a : \E q \in 1..Len(columns) : columns[q].name = a.col)

\* C36: an update whose SET list names a column that is not in the table
\* does not return an error on that account: the assignment is skipped
\* for every row and the call does what the update with the other
\* assignments does; with no other assignment it returns the number of
\* rows matching the condition and changes no row.
C36_UnknownSetColumnSkipped ==
    [][(/\ UpdateStep
        /\ last'.cond.some => last'.cond.text \in KnownConds
        /\ KnownAssignments(OldColumns, last'.set) # last'.set)
       =>
        /\ \E overflow_checks \in BOOLEAN :
            LET others == update(tables, last'.table,
                                 KnownAssignments(OldColumns, last'.set),
                                 last'.cond, overflow_checks)
            IN  last'.res = others.res /\ tables' = others.tables
        /\ KnownAssignments(OldColumns, last'.set) = <<>> =>
            /\ last'.res.ok
            /\ last'.res.count =
                Cardinality({r \in 1..Len(OldRows) :
                                Satisfies(last'.cond, OldColumns, OldRows[r])})
            /\ tables' = tables]_vars

\* An update that sets an unknown column and b changed b in the one row
\* that matched and returned 1.
C36_Witness ==
    /\ last.op = "update"
    /\ last.set = <<Assign(C_zz, V_3), Assign(C_b, V_1)>>
    /\ last.cond = SomeCond(K_a_eq_1)
    /\ last.res.ok
    /\ last.res.count = 1
    /\ Len(RowsOf(tables, last.table)) = 2
    /\ RowsOf(tables, last.table)[1] = <<V_1, V_1>>
    /\ RowsOf(tables, last.table)[2][2] # V_1


\* C37: insert, update and delete on table T leave the name, columns and
\* rows of every other table unchanged and never change T's column list;
\* select, successful or failed, changes nothing in the database; every
\* call that fails because the table is not found changes nothing.
C37_FrameEffects ==
    [][(/\ last = Idle
        /\ last'.op \in {"insert", "update", "delete", "select"})
       =>
        /\ Len(tables') = Len(tables)
        /\ \A i \in 1..Len(tables) :
            /\ tables'[i].name = tables[i].name
            /\ tables'[i].columns = tables[i].columns
            /\ tables[i].name # last'.table => tables'[i] = tables[i]
        /\ last'.op = "select" => tables' = tables
        /\ ~Exists(tables, last'.table) => (~last'.res.ok /\ tables' = tables)]_vars

\* An update of u changed the row of u while t, created first, holds a row
\* that the same update would have changed.
C37_Witness ==
    /\ last.op = "update"
    /\ last.table = N_u
    /\ last.res.ok
    /\ last.res.count = 1
    /\ Len(tables) = 2
    /\ tables[1].name = N_t
    /\ tables[1].data = <<(<<V_1, V_1>>)>>
    /\ tables[2].name = N_u
    /\ tables[2].data = <<(<<V_1, V_2>>)>>


\* The form in which a command is kept: trimmed, and ended with ';' unless
\* it ends with one already or is the word exit.
StoredForm(command) ==
    LET text == Trim(command) IN
    IF (text # <<>> /\ text[Len(text)] = ";") \/ ToLower(text) = <<"e", "x", "i", "t">>
    THEN text ELSE text \o <<";">>

\* A step in which add stored its command.
AddStored == last'.op = "add" /\ history'.commands # history.commands

\* C39: for a history created with max_size n >= 1, len() <= n after any
\* sequence of calls; an add that stores a command while len() = n evicts
\* exactly the oldest entry and keeps the other entries in their order,
\* with the new command last.
C39_HistoryBounded ==
    /\ [](history.max_size >= 1 => Len(history.commands) <= history.max_size)
    /\ [][(/\ history.max_size >= 1
           /\ AddStored
           /\ Len(history.commands) = history.max_size)
          =>
           history'.commands =
                Append(Tail(history.commands), StoredForm(last'.command))]_vars

\* A full history of capacity 2 took a third command: the oldest entry is
\* gone.
C39_Witness ==
    /\ history.max_size = 2
    /\ last.op = "add"
    /\ last.command = H_c
    /\ last.len_before = 2
    /\ history.commands = <<<<"b", ";">>, <<"c", ";">>>>

\* C40: 0 <= current_index <= len() in every reachable state; an add that
\* stores a command leaves current_index = len(); get_previous returns the
\* entry before the cursor and moves the cursor to it, and returns None
\* without moving the cursor at the oldest entry; a get_next directly
\* after a get_previous that returned entry e returns e and moves the
\* cursor one step forward.
C40_HistoryCursor ==
    /\ [](/\ 0 <= history.current_index
          /\ history.current_index <= Len(history.commands))
    /\ [][/\ AddStored => history'.current_index = Len(history'.commands)
          /\ last'.op = "get_previous" =>
                /\ history'.commands = history.commands
                /\ IF history.current_index > 0
                   THEN /\ last'.ret = SomeStr(history.commands[history.current_index])
                        /\ history'.current_index = history.current_index - 1
                   ELSE /\ last'.ret = NoneStr
                        /\ history'.current_index = history.current_index
          /\ (last.op = "get_previous" /\ last.ret.some /\ last'.op = "get_next") =>
                /\ last'.ret = last.ret
                /\ history'.current_index = history.current_index + 1]_vars

\* get_next returned the newest of two entries and left the cursor at the
\* end: the cursor stood on that entry, where get_previous had put it.
C40_Witness ==
    /\ last.op = "get_next"
    /\ last.ret = SomeStr(<<"b", ";">>)
    /\ history.commands = <<<<"a", ";">>, <<"b", ";">>>>
    /\ history.current_index = 2


\* C32: a load that directly follows a successful save returns a database
\* with the same tables in the same order, each with the same name, the
\* same columns (name, data type with its parameter, is_primary, not_null)
\* and the same rows; it fails only when the file cannot be read.
C32_SaveLoadRoundTrip ==
    [][(/\ last.op = "save" /\ last.res.ok
        /\ last'.op = "load" /\ last'.read_ok)
       =>
        /\ last'.res.ok
        /\ Len(last'.loaded) = Len(tables)
        /\ \A i \in 1..Len(tables) :
            /\ last'.loaded[i].name = tables[i].name
            /\ last'.loaded[i].columns = tables[i].columns
            /\ last'.loaded[i].data = tables[i].data]_vars

\* Two tables, one of them named with a quote and a backslash, the other
\* holding two rows, the row of key 2 before the row of key 1 and a
\* quote and a backslash in a cell, were saved and loaded back.
C32_Witness ==
    /\ last.op = "load"
    /\ last.res.ok
    /\ file.exists
    /\ last.loaded = tables
    /\ Len(tables) = 2
    /\ \E i \in 1..2 : tables[i].name = N_quoted
    /\ \E i \in 1..2 :
            /\ Len(tables[i].data) = 2
            /\ tables[i].data[1][1] = V_2
            /\ tables[i].data[2][1] = V_1
            /\ tables[i].data[2][2] = V_quote_backslash


\* Every statement of a script run in its order, each on the tables the
\* one before it left, whether or not it failed: the tables at the end,
\* and whether a statement failed.
RECURSIVE StatementsInOrder(_, _, _, _, _)
StatementsInOrder(tabs, statements, k, failed, overflow_checks) ==
    IF k > Len(statements) THEN [tables |-> tabs, failed |-> failed]
    ELSE
        LET out == RunStatement(tabs, statements[k], overflow_checks) IN
        StatementsInOrder(out.tables, statements, k + 1,
                          failed \/ ~out.res.ok, overflow_checks)

\* C38: execute_sql, given statements separated by semicolons, runs them
\* in their order on one database; a statement that fails neither stops
\* the statements after it nor undoes those before it; the database is
\* saved once, at the end; and, for an input other than HISTORY, the call
\* returns false exactly when a statement failed or the save failed.
C38_ScriptRunsToEnd ==
    [][(last'.op = "execute_sql" /\ ~last'.input.history_word)
       =>
        LET start == load(file, last'.read_ok)
            db == IF start.res.ok THEN start.tables ELSE <<>>
            statements == SelectSeq(last'.input.segments,
                                    LAMBDA st : st.kind # "blank")
            end == StatementsInOrder(db, statements, 1, FALSE,
                                     last'.overflow_checks)
        IN
        /\ last'.ret \in {"true", "false"}
        /\ last'.ret = "false" <=> (end.failed \/ last'.io.kind # "written")
        /\ last'.io.kind = "written" =>
                /\ file'.exists
                /\ load(file', TRUE).res.ok
                /\ load(file', TRUE).tables = end.tables]_vars

====
